---- MODULE Spec2Model ----
(***************************************************************************)
(* Model of NoxSync (src-tauri/src): the export engine (export, montage),  *)
(* the VOD resolver chain (platform) and the relay port (proxy, lib).      *)
(* A behaviour follows one of four scenarios chosen in Init: one           *)
(* SmartExporter call with its two backends (FfmpegExporter,               *)
(* YtDlpExporter), one MontageExporter call, calls of                      *)
(* VodResolverChain::resolve, or the start-up of the relay.                *)
(* Times are integers in centiseconds (0.1 s = 10, 3600 s = 360000);       *)
(* the timeout timers are integers in seconds.  Strings the program        *)
(* searches (URLs) are sequences of tokens.                                *)
(***************************************************************************)
EXTENDS Integers, Sequences, FiniteSets, TLC

VARIABLES
    backend,     \* which exporter runs the call: "ffmpeg", "ytdlp", "montage";
                 \* "none" before SmartExporter has chosen, "resolver" and
                 \* "proxy" in the scenarios without an exporter
    vod,         \* the ResolvedVod {url, is_hls} handed to SmartExporter
    rerun,       \* what a later export_clips run decides for the same clip
    url,         \* the url given to VodResolverChain::resolve
    upstream,    \* what the platform answers: the metadata response and, per
                 \* quality, the answer to a HEAD request on its playlist
    rpc,         \* position of the resolve call
    ctx,         \* locals of TwitchResolver::resolve: vod_id, metadata, domain,
                 \* vod_special_id
    qi,          \* index in QUALITIES of the quality being probed
    resolved,    \* value returned by the resolve call (Pending until it returns)
    requests,    \* history: network requests issued by the resolve call
    delegated,   \* history: resolvers whose resolve() the chain has called
    run,         \* number of the resolve call
    first,       \* history: value returned by the first resolve call
    ACTIVE_PORT, \* the static AtomicU16
    ppc,         \* position of run() on the main thread
    port_offset, \* loop variable of init_proxy_port
    server,      \* the relay thread: "none", "starting", "serving", "stopped"
    busy,        \* ports of 127.0.0.1 that other processes hold
    stores,      \* history: number of stores to ACTIVE_PORT
    urlPort,     \* history: port in the last url get_proxy_url returned
    rewritePort, \* history: port in the last manifest the relay rewrote
    listenPort,  \* port the relay's listener is bound to, 0 when it has none
    handler,     \* proxy_handler: its position, the url of the request, what
                 \* the upstream answers, the local content_type, and the
                 \* number of upstream fetches made for the request (history)
    response,    \* the response proxy_handler returned to the request
    parser,      \* a progress parser and the line given to its parse_line
    parseResult, \* what parse_line returned (NotParsed before the call)
    call,        \* a call of a function that computes a value from its
                 \* arguments alone: the function's name and its arguments
    ret,         \* what that call returned (NotReturned before it returns)
    CONFIG,      \* the static CONFIG: RwLock<Option<Config>>, its value
    lock,        \* the RwLock of CONFIG: the threads holding a read guard
                 \* and the thread holding the write guard (0 when none)
    threads,     \* per thread: the function of config.rs it is in, its
                 \* position there, whether get_config called init_config
    ncalls,      \* calls of functions of config.rs started so far
    detected,    \* history: what each run of VideoEncoder::detect_best returned
    used,        \* history: the encoders build_encode_command has used
    clipRequests, \* export_clips: the `clips` argument, each clip its index
    cpc,         \* export_clips: position of the call
    ci,          \* export_clips: number of clips the loop has taken
    exported,    \* export_clips: the local `exported`
    skipped,     \* export_clips: the local `skipped`
    failed,      \* export_clips: the local `failed`
    errors,      \* export_clips: the local `errors`, each entry its clip's index
    events,      \* history: the events emitted on "export-progress"
    cret,        \* what export_clips returned (NotReturned before it returns)
    timing,      \* ClipTiming {start, duration}, centiseconds
    clips,       \* MontageConfig.clips, abstracted: "empty", "missing", "present"
    pc,          \* position of the call
    attempt,     \* loop variable of `for attempt in 1..=MAX_RETRIES`
    stage,       \* command of the attempt being run
    last_error,  \* the local `last_error`
    result,      \* value returned by the call (Pending until it returns)
    proc,        \* the child process of the current command
    pipe,        \* lines written to the captured pipe and not yet read
    pipeOpen,    \* the child still holds the write end of the captured pipe
    nwritten,    \* lines the children of this call have written so far
    timer,       \* seconds elapsed on the tokio timeout, TimerOff when none is armed
    file,        \* what is at output_path
    hist,        \* history: one record per command the call tried to run
    probes,      \* history: number of ffprobe processes spawned by verify_output
    sink         \* history: percents delivered to the progress callback

exportVars == <<backend, timing, clips, pc, attempt, stage, last_error, result,
                proc, pipe, pipeOpen, nwritten, timer, file, hist, probes, sink>>

\* the variables no step of an exporter's retry loop assigns
resolverVars == <<url, upstream, rpc, ctx, qi, resolved, requests, delegated,
                  run, first>>

handlerVars == <<handler, response>>

proxyVars == <<ACTIVE_PORT, ppc, port_offset, server, busy, stores, urlPort,
               rewritePort, listenPort, handlerVars>>

numericVars == <<call, ret>>

configVars == <<CONFIG, lock, threads, ncalls, detected, used>>

\* the variables of the scenarios that run functions on their own
clipsVars == <<clipRequests, cpc, ci, exported, skipped, failed, errors, events,
               cret>>

laterVars == <<numericVars, configVars, clipsVars>>

parserVars == <<parser, parseResult, laterVars>>

others == <<vod, rerun, resolverVars, proxyVars, parserVars>>

vars == <<exportVars, others>>

----------------------------------------------------------------------------
(* Bounds of the model *)

\* lines the child processes of one call write to their pipes at most, in all
MaxLines == 2

\* calls of init_config, build_encode_command and set_output_dir, in all
MaxConfigCalls == 3

\* clips in one export_clips request
MaxRequests == 2

\* progress events one clip's export delivers
MaxProgress == 2

\* calls of VodResolverChain::resolve on the same url
ResolveRuns == 2

\* seconds by which one Tick advances an armed timer
TickStep == 150

----------------------------------------------------------------------------
(* Program constants *)

EXPORT_TIMEOUT == 300

BASE_PROXY_PORT == 9878

MAX_PORT_ATTEMPTS == 10

MONTAGE_TIMEOUT == 900

MAX_RETRIES == 2

\* 0.1 s in centiseconds
MIN_DURATION == 10

\* 3600.0 s in centiseconds
MAX_DURATION == 360000

\* FfmpegExporter::new
try_copy_first == TRUE

\* YtDlpExporter::new
force_keyframes == TRUE

----------------------------------------------------------------------------
(* Values *)

Min(a, b) == IF a < b THEN a ELSE b

Max(a, b) == IF a > b THEN a ELSE b

Abs(a) == IF a < 0 THEN -a ELSE a

Last(s) == s[Len(s)]

\* Strings are sequences of tokens; a pattern the program searches for is a
\* sequence of tokens too.

\* the tokens of p stand in s from position i on
MatchAt(s, p, i) ==
    /\ i + Len(p) - 1 <= Len(s)
    /\ \A k \in 1..Len(p) : s[i + k - 1] = p[k]

\* str::contains
contains(s, p) == \E i \in 1..Len(s) : MatchAt(s, p, i)

\* str::ends_with
ends_with(s, p) == Len(p) <= Len(s) /\ MatchAt(s, p, Len(s) - Len(p) + 1)

\* char::to_lowercase on the tokens that have upper-case letters
LowerToken(t) ==
    CASE t = ".MP4" -> ".mp4"
      [] t = ".M3U8" -> ".m3u8"
      [] t = "HIGHLIGHT" -> "highlight"
      [] t = "ARCHIVE" -> "archive"
      [] OTHER -> t

\* str::to_lowercase
to_lowercase(s) == [i \in 1..Len(s) |-> LowerToken(s[i])]

TimerOff == -1

Pending == [kind |-> "Pending"]

Ok == [kind |-> "Ok"]

NoError == [kind |-> "None"]

\* What ffprobe would report for a file: a duration in centiseconds, or one
\* of the codes below.
Absent == -1

\* ffprobe exits non-zero on the file
Unreadable == -2

\* ffprobe prints no parsable duration
Garbage == -3

\* left behind by a process that has not finished (or never finished) writing
Partial == -4

\* `by` is the index in hist of the command that wrote the file, 0 for a file
\* that was there before the call
NoFile == [by |-> -1, probe |-> Absent]

PreExisting == [by |-> 0, probe |-> Partial]

\* state: "none", "running", "exited" (not yet waited for), "reaped";
\* stuck: the running process is blocked in a write to a full pipe
NoProc == [state |-> "none", status |-> 0, wrote |-> FALSE, stuck |-> FALSE,
           left |-> 0, lines |-> <<>>, sunk |-> 0]

\* exit status reported for a process ended by SIGKILL
Killed == 9

\* a line of tool output without a progress token
NoToken == -1

\* ExportError values. `at` is the index in hist of the command whose run or
\* verification produced the error, `phase` tells which of the two.
ErrValidation(k, v) == [kind |-> k, value |-> v]

ErrRun(k, m, i) == [kind |-> k, msg |-> m, at |-> i, phase |-> "run"]

ErrVerify(k, m, i) == [kind |-> k, msg |-> m, at |-> i, phase |-> "verify"]

ErrGeneric(k) == [kind |-> k, msg |-> "Export failed", at |-> 0, phase |-> "none"]

ToolKind == IF backend = "ytdlp" THEN "YtDlp" ELSE "Ffmpeg"

IsErr(r) == r.kind \notin {"Pending", "Ok", "None"}

\* faulty variant of validate: the duration is tested before the start
validate_DurationFirst(t) ==
    IF t.duration < MIN_DURATION \/ t.duration > MAX_DURATION
    THEN ErrValidation("InvalidDuration", t.duration)
    ELSE IF t.start < 0 THEN ErrValidation("InvalidStartTime", t.start)
         ELSE Ok

\* ClipTiming::validate
validate(t) ==
    IF t.start < 0 THEN ErrValidation("InvalidStartTime", t.start)
    ELSE IF t.duration < MIN_DURATION \/ t.duration > MAX_DURATION
         THEN ErrValidation("InvalidDuration", t.duration)
         ELSE Ok

\* timings a caller may pass: the unit tests' values and the bounds' neighbours
TimingInputs ==
    { [start |-> 1000, duration |-> 3000],
      [start |-> 0,    duration |-> MIN_DURATION],
      [start |-> 0,    duration |-> MAX_DURATION],
      [start |-> -500, duration |-> 3000],
      [start |-> 1000, duration |-> 0],
      [start |-> 1000, duration |-> 400000],
      [start |-> 0,    duration |-> MIN_DURATION - 1],
      [start |-> 0,    duration |-> MAX_DURATION + 1],
      [start |-> -1,   duration |-> MIN_DURATION - 1],
      [start |-> -1,   duration |-> MAX_DURATION + 1] }


\* faulty variant of DurationOk: the tolerance is 15% of the expected
\* duration, without the floor of 1.5 s
DurationOk_NoFloor(actual, expected) ==
    ~ (100 * Abs(actual - expected) > 15 * expected)

\* FfmpegExporter::verify_output, the tolerance test: 15% of the expected
\* duration or 1.5 s, whichever is larger
DurationOk(actual, expected) ==
    ~ (100 * Abs(actual - expected) > Max(15 * expected, 15000))

\* largest whole number of centiseconds within the tolerance
Tolerance(expected) == Max((15 * expected) \div 100, 150)

\* what the files a tool leaves on a zero exit can look like to ffprobe
ProbeChoices(expected) ==
    IF backend = "ffmpeg"
    THEN { Unreadable, Garbage, expected,
           expected + Tolerance(expected), expected + Tolerance(expected) + 1 }
    ELSE { expected }

\* lines a tool can print: ffmpeg a time= token (centiseconds elapsed),
\* yt-dlp a percent token, either one also lines without a token
LineChoices ==
    IF backend = "ytdlp" THEN { NoToken, 45, 150 }
    ELSE { NoToken, timing.duration \div 2, timing.duration * 2 }

----------------------------------------------------------------------------
(* The progress parsers: FfmpegProgressParser, YtDlpProgressParser *)

\* A line of tool output is a sequence of tokens; white space is the token
\* " ", a run of digits is one token.

\* the runs of two digits, "%02d" of 0..99
Digits2 ==
    <<
       "00", "01", "02", "03", "04", "05", "06", "07", "08", "09", "10",
       "11", "12", "13", "14", "15", "16", "17", "18", "19", "20", "21",
       "22", "23", "24", "25", "26", "27", "28", "29", "30", "31", "32",
       "33", "34", "35", "36", "37", "38", "39", "40", "41", "42", "43",
       "44", "45", "46", "47", "48", "49", "50", "51", "52", "53", "54",
       "55", "56", "57", "58", "59", "60", "61", "62", "63", "64", "65",
       "66", "67", "68", "69", "70", "71", "72", "73", "74", "75", "76",
       "77", "78", "79", "80", "81", "82", "83", "84", "85", "86", "87",
       "88", "89", "90", "91", "92", "93", "94", "95", "96", "97", "98", "99" >>

DigitRuns == { Digits2[n] : n \in 1..100 }

\* \d{2} on a whole run of digits
IsDigits2(t) == t \in DigitRuns

\* the longer runs of digits of the model
LongDigits == {"100", "123", "150"}

\* the first two digits of a run of at least two
First2(t) ==
    CASE t = "100" -> "10"
      [] t = "123" -> "12"
      [] t = "150" -> "15"
      [] OTHER -> t

\* str::parse::<f64> on a run of two digits
Num2(t) == (CHOOSE n \in 1..100 : Digits2[n] = t) - 1

\* the numbers with a decimal point of the model
Decimals == {"0.5", "1.50", "2.00", "5.20", "10.00", "45.2", "100.0"}

\* [0-9.]+ on a whole token
IsNumber(t) == IsDigits2(t) \/ t \in LongDigits \/ t \in Decimals \/ t = "5"

\* str::parse::<f32> on the numbers of the model, in whole percents
Percent(t) ==
    CASE t = "0.5" -> 0
      [] t = "1.50" -> 1
      [] t = "2.00" -> 2
      [] t = "5.20" -> 5
      [] t = "5" -> 5
      [] t = "10.00" -> 10
      [] t = "45.2" -> 45
      [] t = "100.0" -> 100
      [] t = "100" -> 100
      [] t = "123" -> 123
      [] t = "150" -> 150
      [] OTHER -> Num2(t)

\* Option<(f32, Option<String>)>: speed <<>> is None
NoEvent == [some |-> FALSE, percent |-> 0, speed |-> <<>>]

Event(p, s) == [some |-> TRUE, percent |-> p, speed |-> s]

\* the least element of a set of positions
First(S) == CHOOSE i \in S : \A k \in S : i <= k

\* time_regex matches from token i on: time=(\d{2}):(\d{2}):(\d{2})\.(\d{2});
\* the regex is not anchored, so time= may end a longer word and the last
\* group may begin a longer run of digits
TimeAt(line, i) ==
    /\ i + 7 <= Len(line)
    /\ line[i] \in {"time=", "out_time="}
    /\ IsDigits2(line[i + 1]) /\ line[i + 2] = ":"
    /\ IsDigits2(line[i + 3]) /\ line[i + 4] = ":"
    /\ IsDigits2(line[i + 5]) /\ line[i + 6] = "."
    /\ (IsDigits2(line[i + 7]) \/ line[i + 7] \in LongDigits)

\* the number token that speed_regex, speed=\s*([0-9.]+)x, captures when it
\* matches from token i on; 0 when it does not
SpeedAt(line, i) ==
    IF line[i] # "speed=" THEN 0
    ELSE LET after == { k \in (i + 1)..Len(line) : line[k] # " " }
         IN  IF after = {} THEN 0
             ELSE LET n == First(after)
                  IN  IF IsNumber(line[n]) /\ n < Len(line) /\ line[n + 1] = "x"
                      THEN n ELSE 0

\* faulty variant of ffmpeg_parse_line: the hours are not counted
ffmpeg_parse_line_NoHours(duration, line) ==
    LET times == { i \in 1..Len(line) : TimeAt(line, i) }
        speeds == { i \in 1..Len(line) : SpeedAt(line, i) # 0 }
    IN  IF times = {} THEN NoEvent
        ELSE LET i == First(times)
                 minutes == Num2(line[i + 3])
                 seconds == Num2(line[i + 5])
                 centis == Num2(First2(line[i + 7]))
                 current_time == minutes * 6000 + seconds * 100 + centis
                 percent == IF duration > 0
                            THEN Min((current_time * 100) \div duration, 100)
                            ELSE 0
                 speed == IF speeds = {} THEN <<>>
                          ELSE <<line[SpeedAt(line, First(speeds))], "x">>
             IN  Event(percent, speed)

\* FfmpegProgressParser::parse_line; duration and current_time in
\* centiseconds, the percent in whole percents
ffmpeg_parse_line(duration, line) ==
    LET times == { i \in 1..Len(line) : TimeAt(line, i) }
        speeds == { i \in 1..Len(line) : SpeedAt(line, i) # 0 }
    IN  IF times = {} THEN NoEvent
        ELSE LET i == First(times)
                 hours == Num2(line[i + 1])
                 minutes == Num2(line[i + 3])
                 seconds == Num2(line[i + 5])
                 centis == Num2(First2(line[i + 7]))
                 current_time == hours * 360000 + minutes * 6000
                                     + seconds * 100 + centis
                 percent == IF duration > 0
                            THEN Min((current_time * 100) \div duration, 100)
                            ELSE 0
                 speed == IF speeds = {} THEN <<>>
                          ELSE <<line[SpeedAt(line, First(speeds))], "x">>
             IN  Event(percent, speed)

\* the number token that percent_regex, \[download\]\s+(\d+\.?\d*)%, captures
\* when it matches from token i on; 0 when it does not
PercentAt(line, i) ==
    IF line[i] # "[download]" \/ i + 1 > Len(line) \/ line[i + 1] # " " THEN 0
    ELSE LET after == { k \in (i + 1)..Len(line) : line[k] # " " }
         IN  IF after = {} THEN 0
             ELSE LET n == First(after)
                  IN  IF IsNumber(line[n]) /\ n < Len(line) /\ line[n + 1] = "%"
                      THEN n ELSE 0

\* the tokens that speed_regex, at\s+([0-9.]+\s*\w+/s), captures when it
\* matches from token i on; <<>> when it does not
RateAt(line, i) ==
    IF line[i] # "at" \/ i + 1 > Len(line) \/ line[i + 1] # " " THEN <<>>
    ELSE LET after == { k \in (i + 1)..Len(line) : line[k] # " " }
         IN  IF after = {} THEN <<>>
             ELSE LET n == First(after)
                      units == { k \in (n + 1)..Len(line) : line[k] # " " }
                  IN  IF IsNumber(line[n]) /\ units # {}
                         /\ line[First(units)] \in {"B/s", "KiB/s", "MiB/s"}
                      THEN SubSeq(line, n, First(units))
                      ELSE <<>>

\* faulty variant of ytdlp_parse_line: the percent is not capped
ytdlp_parse_line_NoCap(line) ==
    LET percents == { i \in 1..Len(line) : PercentAt(line, i) # 0 }
        speeds == { i \in 1..Len(line) : RateAt(line, i) # <<>> }
    IN  IF percents = {} THEN NoEvent
        ELSE LET percent == Percent(line[PercentAt(line, First(percents))])
                 speed == IF speeds = {} THEN <<>>
                          ELSE RateAt(line, First(speeds))
             IN  Event(percent, speed)

\* YtDlpProgressParser::parse_line, the percent in whole percents
ytdlp_parse_line(line) ==
    LET percents == { i \in 1..Len(line) : PercentAt(line, i) # 0 }
        speeds == { i \in 1..Len(line) : RateAt(line, i) # <<>> }
    IN  IF percents = {} THEN NoEvent
        ELSE LET percent == Percent(line[PercentAt(line, First(percents))])
                 speed == IF speeds = {} THEN <<>>
                          ELSE RateAt(line, First(speeds))
             IN  Event(Min(percent, 100), speed)

\* what ffmpeg prints for `centis` centiseconds of output: time=%02d:%02d:%02d.%02d
FormatTime(centis) ==
    <<"time=", Digits2[(centis \div 360000) + 1], ":",
      Digits2[((centis \div 6000) % 60) + 1], ":",
      Digits2[((centis \div 100) % 60) + 1], ".",
      Digits2[(centis % 100) + 1]>>

\* the text of a line of LineChoices as the tool prints it
LineText(line) ==
    IF backend = "ytdlp"
    THEN IF line = NoToken
         THEN <<"[download]", " ", "Destination:", " ", "clip", ".mp4">>
         ELSE <<"[download]", " ", " ",
                IF line < 100 THEN Digits2[line + 1] ELSE "150",
                "%", " ", "of", " ", "100.0", "MiB", " ", "at", " ", "5.20", "MiB/s">>
    ELSE IF line = NoToken
         THEN <<"Press", " ", "[q]", " ", "to", " ", "stop">>
         ELSE <<"frame=", " ", "150", " ">> \o FormatTime(line)
                  \o <<" ", "bitrate=", "N/A", " ", "speed=", "2.00", "x">>

\* the parse_line of the exporter's parser on a line of its tool, reduced to
\* the percent; NoToken when the line yields no event
parse_line(line) ==
    LET event == IF backend = "ytdlp" THEN ytdlp_parse_line(LineText(line))
                 ELSE ffmpeg_parse_line(timing.duration, LineText(line))
    IN  IF event.some THEN event.percent ELSE NoToken

\* parse_line has not been called
NotParsed == [some |-> FALSE, percent |-> -1, speed |-> <<>>]

NoParser == [kind |-> "none", duration |-> 0, line |-> <<>>]

\* lines given to FfmpegProgressParser: those of the unit test, and lines
\* that miss a part of the tokens
FfmpegLines ==
    { <<"frame=", " ", "150", " ", "time=", "00", ":", "00", ":", "05", ".", "00",
        " ", "bitrate=", "N/A", " ", "speed=", "2.00", "x">>,
      <<"time=", "00", ":", "00", ":", "10", ".", "00", " ", "speed=", "1.50", "x">>,
      <<"time=", "00", ":", "01", ":", "00", ".", "00", " ", "speed=", " ", "0.5", "x">>,
      <<"time=", "01", ":", "00", ":", "00", ".", "00">>,
      <<"time=", "00", ":", "00", ":", "02", ".", "50", " ", "speed=", "N/A">>,
      <<"time=", "00", ":", "00", ":", "05", ".", "123">>,
      <<"out_time=", "00", ":", "00", ":", "02", ".", "50">>,
      <<"time=", "N/A", " ", "speed=", "N/A">>,
      <<"time=", "-", "00", ":", "00", ":", "05", ".", "00">>,
      <<"time=", "5", ":", "00", ":", "05", ".", "00">>,
      <<"time=", "100", ":", "00", ":", "05", ".", "00">>,
      <<"time=", "00", ":", "00", ":", "05">>,
      <<"speed=", "2.00", "x">>,
      <<"Press", " ", "[q]", " ", "to", " ", "stop">>,
      <<>> }

\* lines given to YtDlpProgressParser
YtDlpLines ==
    { <<"[download]", " ", " ", "45.2", "%", " ", "of", " ", "100.0", "MiB", " ",
        "at", " ", "5.20", "MiB/s">>,
      <<"[download]", " ", "100.0", "%", " ", "of", " ", "50", "MiB", " ",
        "at", " ", "10.00", " ", "MiB/s">>,
      <<"[download]", " ", "150", "%">>,
      <<"[download]", " ", "0.5", "%", " ", "at", " ", "Unknown", " ", "B/s">>,
      <<"[download]", " ", "45", "%", " ", "at", " ", "5.20">>,
      <<"[download]", "45", "%">>,
      <<"[download]", " ", "45", " ", "%">>,
      <<"[download]", " ", "Destination:", " ", "clip", ".mp4">>,
      <<"[ffmpeg]", " ", "45", "%", " ", "at", " ", "5.20", "MiB/s">>,
      <<"at", " ", "5.20", "MiB/s">>,
      <<>> }

\* the parsers and lines of the parser scenario; the expected durations are
\* that of the unit test, 10 s, and two that are not positive
ParserInputs ==
    { [kind |-> "ffmpeg", duration |-> d, line |-> l] :
          d \in {1000, 0, -100}, l \in FfmpegLines }
        \cup { [kind |-> "ytdlp", duration |-> 0, line |-> l] : l \in YtDlpLines }

\* FfmpegProgressParser::new(duration).parse_line(line)
FfmpegParse ==
    /\ parser.kind = "ffmpeg"
    /\ parseResult = NotParsed
    /\ parseResult' = ffmpeg_parse_line(parser.duration, parser.line)
    /\ UNCHANGED <<exportVars, vod, rerun, resolverVars, proxyVars, parser,
                   laterVars>>

\* YtDlpProgressParser::new().parse_line(line)
YtDlpParse ==
    /\ parser.kind = "ytdlp"
    /\ parseResult = NotParsed
    /\ parseResult' = ytdlp_parse_line(parser.line)
    /\ UNCHANGED <<exportVars, vod, rerun, resolverVars, proxyVars, parser,
                   laterVars>>

----------------------------------------------------------------------------
(* Functions of numbers: format_time, build_command's time range, total_duration *)

\* Numbers of seconds are counted in centiseconds; a string built by
\* format! is the sequence of its characters.

Digit == <<"0", "1", "2", "3", "4", "5", "6", "7", "8", "9">>

\* Display of an unsigned integer
RECURSIVE Decimal(_)
Decimal(n) ==
    IF n < 10 THEN <<Digit[n + 1]>>
    ELSE Decimal(n \div 10) \o <<Digit[(n % 10) + 1]>>

\* format!("{:02}", n): zeros on the left up to a width of two
Pad2(n) == IF n < 10 THEN <<"0">> \o Decimal(n) ELSE Decimal(n)

\* faulty variant of format_time: the minutes are not reduced modulo the hour
format_time_WholeMinutes(seconds) ==
    LET total == Abs(seconds) \div 100
        h == total \div 3600
        m == total \div 60
        s == total % 60
    IN  Pad2(h) \o <<":">> \o Pad2(m) \o <<":">> \o Pad2(s)

\* YtDlpExporter::format_time; `seconds.abs() as u64` drops the fraction
format_time(seconds) ==
    LET total == Abs(seconds) \div 100
        h == total \div 3600
        m == (total % 3600) \div 60
        s == total % 60
    IN  Pad2(h) \o <<":">> \o Pad2(m) \o <<":">> \o Pad2(s)

\* YtDlpExporter::build_command, the value of --download-sections
download_sections(t) ==
    LET start_str == format_time(t.start)
        end_str == format_time(t.start + t.duration)
    IN  <<"*">> \o start_str \o <<"-">> \o end_str

\* faulty variant of total_duration: one transition is counted for each clip
total_duration_PerClip(config) ==
    IF config.clips = <<>> THEN 0
    ELSE LET sum[i \in 0..Len(config.clips)] ==
                 IF i = 0 THEN 0 ELSE sum[i - 1] + config.clips[i]
             transition_count == Len(config.clips)
         IN  sum[Len(config.clips)] - (transition_count * config.transition_duration)

\* MontageConfig::total_duration; a clip is its duration
total_duration(config) ==
    IF config.clips = <<>> THEN 0
    ELSE LET sum[i \in 0..Len(config.clips)] ==
                 IF i = 0 THEN 0 ELSE sum[i - 1] + config.clips[i]
             transition_count == Len(config.clips) - 1
         IN  sum[Len(config.clips)] - (transition_count * config.transition_duration)

\* the call has not returned
NotReturned == [some |-> FALSE]

Returns(v) == [some |-> TRUE, value |-> v]

NoCall == [fn |-> "none"]

\* seconds given to format_time: those of the unit test, fractions, the
\* last second of a minute and of an hour, a hundred hours, negative ones
SecondsInputs ==
    { 0, 6100, 366100, 99, 6150, 5999, 359999, 360000, 36000000, -6100, -150 }

\* timings build_command is given: validate() has accepted them
ValidTimings ==
    { t \in TimingInputs : validate(t) = Ok }
        \cup { [start |-> 5950, duration |-> MIN_DURATION],
               [start |-> 5990, duration |-> MIN_DURATION],
               [start |-> 359950, duration |-> 50],
               [start |-> 35999900, duration |-> MAX_DURATION] }

\* longest clip list of the model
MaxClips == 3

ClipDurations == {1000, 1500, 2000}

\* montage configurations: those of the unit tests are among them
MontageInputs ==
    { [clips |-> c, transition_duration |-> td] :
          c \in UNION { [1..n -> ClipDurations] : n \in 0..MaxClips },
          td \in {0, 50, 2500} }

NumericInputs ==
    { [fn |-> "format_time", seconds |-> s] : s \in SecondsInputs }
        \cup { [fn |-> "build_command", timing |-> t] : t \in ValidTimings }
        \cup { [fn |-> "total_duration", config |-> c] : c \in MontageInputs }

\* YtDlpExporter::format_time(seconds)
FormatTimeCall ==
    /\ call.fn = "format_time"
    /\ ret = NotReturned
    /\ ret' = Returns(format_time(call.seconds))
    /\ UNCHANGED <<exportVars, vod, rerun, resolverVars, proxyVars, parser,
                   parseResult, call, configVars, clipsVars>>

\* YtDlpExporter::build_command(url, timing, output, with_keyframes)
BuildCommand ==
    /\ call.fn = "build_command"
    /\ ret = NotReturned
    /\ ret' = Returns(download_sections(call.timing))
    /\ UNCHANGED <<exportVars, vod, rerun, resolverVars, proxyVars, parser,
                   parseResult, call, configVars, clipsVars>>

\* MontageConfig::total_duration()
TotalDuration ==
    /\ call.fn = "total_duration"
    /\ ret = NotReturned
    /\ ret' = Returns(total_duration(call.config))
    /\ UNCHANGED <<exportVars, vod, rerun, resolverVars, proxyVars, parser,
                   parseResult, call, configVars, clipsVars>>

----------------------------------------------------------------------------
(* The global configuration: CONFIG, get_config, init_config *)

\* the threads that call into config.rs
Threads == {1, 2}

\* VideoEncoder
Encoders == {"libx264", "h264_amf", "h264_nvenc", "h264_qsv"}

\* CONFIG holds None
NoConfig == [some |-> FALSE]

\* Some(Config): the encoder of its FfmpegConfig and its output_dir
SomeConfig(e, d) == [some |-> TRUE, encoder |-> e, output_dir |-> d]

Unlocked == [readers |-> {}, writer |-> 0]

\* a thread outside config.rs
Outside == [fn |-> "none", pc |-> "out", nested |-> FALSE]

\* a thread calls init_config (run() does at start-up), build_encode_command
\* (which calls get_config) or ConfigGuard::set_output_dir
ConfigCall(t) ==
    /\ backend = "config"
    /\ threads[t] = Outside
    /\ ncalls < MaxConfigCalls
    /\ ncalls' = ncalls + 1
    /\ \E fn \in {"init_config", "build_encode_command", "set_output_dir"} :
          threads' = [threads EXCEPT ![t] =
                         [fn |-> fn,
                          pc |-> IF fn = "build_encode_command" THEN "read" ELSE "write",
                          nested |-> FALSE]]
    /\ UNCHANGED <<exportVars, vod, rerun, resolverVars, proxyVars, parser,
                   parseResult, numericVars, clipsVars, CONFIG, lock, detected, used>>

\* get_config: `let guard = CONFIG.read().unwrap()`
GetConfigRead(t) ==
    /\ threads[t].fn = "build_encode_command" /\ threads[t].pc = "read"
    /\ lock.writer = 0
    /\ lock' = [lock EXCEPT !.readers = @ \cup {t}]
    /\ threads' = [threads EXCEPT ![t].pc = "clone"]
    /\ UNCHANGED <<exportVars, vod, rerun, resolverVars, proxyVars, parser,
                   parseResult, numericVars, clipsVars, CONFIG, ncalls, detected, used>>

\* get_config: guard.clone(), then either the clone is returned and
\* build_encode_command matches on its encoder, or the guard is dropped and
\* init_config is called
GetConfigClone(t) ==
    /\ threads[t].fn = "build_encode_command" /\ threads[t].pc = "clone"
    /\ lock' = [lock EXCEPT !.readers = @ \ {t}]
    /\ IF CONFIG.some
       THEN /\ used' = used \cup {CONFIG.encoder}
            /\ threads' = [threads EXCEPT ![t] = Outside]
       ELSE /\ used' = used
            /\ threads' = [threads EXCEPT ![t].pc = "write", ![t].nested = TRUE]
    /\ UNCHANGED <<exportVars, vod, rerun, resolverVars, proxyVars, parser,
                   parseResult, numericVars, clipsVars, CONFIG, ncalls, detected>>

\* `CONFIG.write().unwrap()` of init_config and of set_output_dir
ConfigWrite(t) ==
    /\ threads[t].pc = "write"
    /\ lock = Unlocked
    /\ lock' = [lock EXCEPT !.writer = t]
    /\ threads' = [threads EXCEPT ![t].pc = "locked"]
    /\ UNCHANGED <<exportVars, vod, rerun, resolverVars, proxyVars, parser,
                   parseResult, numericVars, clipsVars, CONFIG, ncalls, detected, used>>

\* faulty variant of init_config: the configuration is built on every call
InitConfig_Always(t) ==
    /\ threads[t].fn \in {"init_config", "build_encode_command"}
    /\ threads[t].pc = "locked"
    /\ \E e \in Encoders :
          /\ CONFIG' = SomeConfig(e, "default")
          /\ detected' = Append(detected, e)
    /\ lock' = Unlocked
    /\ threads' = [threads EXCEPT ![t] =
                      IF threads[t].nested THEN [@ EXCEPT !.pc = "reread"] ELSE Outside]
    /\ UNCHANGED <<exportVars, vod, rerun, resolverVars, proxyVars, parser,
                   parseResult, numericVars, clipsVars, ncalls, used>>

\* init_config under the write guard: Config::default() runs detect_best
\* only when CONFIG holds None; the encoder it finds is the machine's answer
InitConfig(t) ==
    /\ threads[t].fn \in {"init_config", "build_encode_command"}
    /\ threads[t].pc = "locked"
    /\ IF CONFIG.some
       THEN UNCHANGED <<CONFIG, detected>>
       ELSE \E e \in Encoders :
               /\ CONFIG' = SomeConfig(e, "default")
               /\ detected' = Append(detected, e)
    /\ lock' = Unlocked
    /\ threads' = [threads EXCEPT ![t] =
                      IF threads[t].nested THEN [@ EXCEPT !.pc = "reread"] ELSE Outside]
    /\ UNCHANGED <<exportVars, vod, rerun, resolverVars, proxyVars, parser,
                   parseResult, numericVars, clipsVars, ncalls, used>>

\* get_config after init_config: `CONFIG.read().unwrap().clone().unwrap()`,
\* then build_encode_command matches on the encoder
GetConfigReread(t) ==
    /\ threads[t].fn = "build_encode_command" /\ threads[t].pc = "reread"
    /\ lock.writer = 0
    /\ CONFIG.some
    /\ used' = used \cup {CONFIG.encoder}
    /\ threads' = [threads EXCEPT ![t] = Outside]
    /\ UNCHANGED <<exportVars, vod, rerun, resolverVars, proxyVars, parser,
                   parseResult, numericVars, clipsVars, CONFIG, lock, ncalls, detected>>

\* ConfigGuard::set_output_dir under the write guard: Config::set_output_dir
\* when CONFIG holds a configuration, an error otherwise
SetOutputDir(t) ==
    /\ threads[t].fn = "set_output_dir" /\ threads[t].pc = "locked"
    /\ CONFIG' = IF CONFIG.some THEN [CONFIG EXCEPT !.output_dir = "custom"] ELSE CONFIG
    /\ lock' = Unlocked
    /\ threads' = [threads EXCEPT ![t] = Outside]
    /\ UNCHANGED <<exportVars, vod, rerun, resolverVars, proxyVars, parser,
                   parseResult, numericVars, clipsVars, ncalls, detected, used>>

----------------------------------------------------------------------------
(* commands::export_clips *)

\* ExportProgress, reduced to the event's type, its clip index and the
\* ClipResult of a ClipCompleted
Ev(t, i, st) == [type |-> t, index |-> i, status |-> st]

\* the requests: up to MaxRequests clips numbered from 0 in the order of
\* the list, and the same in reverse order
ClipsInputs ==
    UNION { { [k \in 1..n |-> k - 1], [k \in 1..n |-> n - k] } : n \in 0..MaxRequests }

\* export_clips up to the loop: ensure_clips_dir()? and the Started event
ClipsBegin ==
    /\ cpc = "begin"
    /\ \/ /\ cpc' = "next"
          /\ events' = Append(events, Ev("Started", Len(clipRequests), "none"))
          /\ UNCHANGED cret
       \/ /\ cpc' = "returned"
          /\ cret' = Returns([ok |-> FALSE])
          /\ UNCHANGED events
    /\ UNCHANGED <<exportVars, vod, rerun, resolverVars, proxyVars, parser,
                   parseResult, numericVars, configVars, clipRequests, ci,
                   exported, skipped, failed, errors>>

\* the head of one loop iteration: ensure_streamer_clips_dir()?, then the
\* clip is skipped when output_path exists and ClipStarted is emitted when not
ClipNext ==
    /\ cpc = "next"
    /\ ci < Len(clipRequests)
    /\ ci' = ci + 1
    /\ LET index == clipRequests[ci + 1]
       IN  \/ /\ cpc' = "returned"
              /\ cret' = Returns([ok |-> FALSE])
              /\ UNCHANGED <<events, skipped>>
           \/ /\ skipped' = skipped + 1
              /\ events' = Append(events, Ev("ClipCompleted", index, "Skipped"))
              /\ UNCHANGED <<cpc, cret>>
           \/ /\ events' = Append(events, Ev("ClipStarted", index, "none"))
              /\ cpc' = "resolve"
              /\ UNCHANGED <<cret, skipped>>
    /\ UNCHANGED <<exportVars, vod, rerun, resolverVars, proxyVars, parser,
                   parseResult, numericVars, configVars, clipRequests,
                   exported, failed, errors>>

\* resolver.resolve(&clip.vod_url).await: on Err the clip is counted as failed
ClipResolve ==
    /\ cpc = "resolve"
    /\ LET index == clipRequests[ci]
       IN  \/ /\ cpc' = "export"
              /\ UNCHANGED <<events, failed, errors>>
           \/ /\ errors' = Append(errors, index)
              /\ failed' = failed + 1
              /\ events' = Append(events, Ev("ClipCompleted", index, "Failed"))
              /\ cpc' = "next"
    /\ UNCHANGED <<exportVars, vod, rerun, resolverVars, proxyVars, parser,
                   parseResult, numericVars, configVars, clipRequests, ci,
                   exported, skipped, cret>>

\* the progress callback of the clip being exported emits ClipProgress
ClipProgress ==
    /\ cpc = "export"
    /\ Cardinality({ k \in 1..Len(events) :
                        events[k] = Ev("ClipProgress", clipRequests[ci], "none") })
          < MaxProgress
    /\ events' = Append(events, Ev("ClipProgress", clipRequests[ci], "none"))
    /\ UNCHANGED <<exportVars, vod, rerun, resolverVars, proxyVars, parser,
                   parseResult, numericVars, configVars, clipRequests, cpc, ci,
                   exported, skipped, failed, errors, cret>>

\* exporter.export_with_progress(..).await returns
ClipExport ==
    /\ cpc = "export"
    /\ LET index == clipRequests[ci]
       IN  \/ /\ exported' = exported + 1
              /\ events' = Append(events, Ev("ClipCompleted", index, "Success"))
              /\ UNCHANGED <<failed, errors>>
           \/ /\ errors' = Append(errors, index)
              /\ failed' = failed + 1
              /\ events' = Append(events, Ev("ClipCompleted", index, "Failed"))
              /\ UNCHANGED exported
    /\ cpc' = "next"
    /\ UNCHANGED <<exportVars, vod, rerun, resolverVars, proxyVars, parser,
                   parseResult, numericVars, configVars, clipRequests, ci,
                   skipped, cret>>

\* faulty variant of ClipsFinish: the skipped clips are left out of the result
ClipsFinish_NoSkipped ==
    /\ cpc = "next"
    /\ ci = Len(clipRequests)
    /\ events' = Append(events, Ev("Finished", 0, "none"))
    /\ cret' = Returns([ok |-> TRUE, exported |-> exported, skipped |-> 0,
                        failed |-> failed, errors |-> errors])
    /\ cpc' = "returned"
    /\ UNCHANGED <<exportVars, vod, rerun, resolverVars, proxyVars, parser,
                   parseResult, numericVars, configVars, clipRequests, ci,
                   exported, skipped, failed, errors>>

\* after the loop: the Finished event and Ok(ExportResult {..})
ClipsFinish ==
    /\ cpc = "next"
    /\ ci = Len(clipRequests)
    /\ events' = Append(events, Ev("Finished", 0, "none"))
    /\ cret' = Returns([ok |-> TRUE, exported |-> exported, skipped |-> skipped,
                        failed |-> failed, errors |-> errors])
    /\ cpc' = "returned"
    /\ UNCHANGED <<exportVars, vod, rerun, resolverVars, proxyVars, parser,
                   parseResult, numericVars, configVars, clipRequests, ci,
                   exported, skipped, failed, errors>>

----------------------------------------------------------------------------
(* The retry ladder of export_with_retry *)

\* faulty variant of FirstStage: the attempt number is not looked at
FirstStage_EveryAttempt(a) ==
    IF backend = "ffmpeg"
    THEN (IF try_copy_first THEN "copy" ELSE "encode")
    ELSE (IF force_keyframes THEN "keyframe" ELSE "plain")

\* command an outer attempt starts with: copy / keyframe only in attempt 1
FirstStage(a) ==
    IF backend = "ffmpeg"
    THEN (IF try_copy_first /\ a = 1 THEN "copy" ELSE "encode")
    ELSE (IF force_keyframes /\ a = 1 THEN "keyframe" ELSE "plain")

\* faulty variant of Fallback: a failed stream copy is followed by the other
\* backend's command
Fallback_OtherBackend(st) == IF st = "copy" THEN "plain" ELSE "encode"

\* command that follows a failed first command within the same attempt
Fallback(st) == IF st = "copy" THEN "encode" ELSE "plain"

\* history bookkeeping: set a field of the last record of hist
SetOutcome(h, o) == [h EXCEPT ![Len(h)].outcome = o]

SetVerify(h, v) == [h EXCEPT ![Len(h)].verify = v]

HistRecord(o) == [cmd |-> stage, attempt |-> attempt, outcome |-> o, verify |-> "none"]

\* faulty variant of NextStep: a failed first command ends the attempt
NextStep_NoFallback(le) ==
    /\ last_error' = le
    /\ IF attempt < MAX_RETRIES
       THEN /\ pc' = "spawn"
            /\ attempt' = attempt + 1
            /\ stage' = FirstStage(attempt + 1)
            /\ UNCHANGED result
       ELSE /\ pc' = "done"
            /\ result' = (IF le = NoError THEN ErrGeneric(ToolKind) ELSE le)
            /\ UNCHANGED <<attempt, stage>>

\* faulty variant of NextStep: the first error is kept, later ones dropped
NextStep_KeepFirst(le) ==
    /\ last_error' = (IF last_error = NoError THEN le ELSE last_error)
    /\ IF stage \in {"copy", "keyframe"}
       THEN /\ pc' = "spawn"
            /\ stage' = Fallback(stage)
            /\ UNCHANGED <<attempt, result>>
       ELSE IF attempt < MAX_RETRIES
       THEN /\ pc' = "spawn"
            /\ attempt' = attempt + 1
            /\ stage' = FirstStage(attempt + 1)
            /\ UNCHANGED result
       ELSE /\ pc' = "done"
            /\ result' = (IF last_error' = NoError THEN ErrGeneric(ToolKind)
                          ELSE last_error')
            /\ UNCHANGED <<attempt, stage>>

\* What export_with_retry does after a command or its verification failed,
\* le being the value of last_error after the match arm: fall through to the
\* second command of the attempt, or start the next attempt, or leave the loop
\* and return the last recorded error.
NextStep(le) ==
    /\ last_error' = le
    /\ IF stage \in {"copy", "keyframe"}
       THEN /\ pc' = "spawn"
            /\ stage' = Fallback(stage)
            /\ UNCHANGED <<attempt, result>>
       ELSE IF attempt < MAX_RETRIES
       THEN /\ pc' = "spawn"
            /\ attempt' = attempt + 1
            /\ stage' = FirstStage(attempt + 1)
            /\ UNCHANGED result
       ELSE /\ pc' = "done"
            /\ result' = (IF le = NoError THEN ErrGeneric(ToolKind) ELSE le)
            /\ UNCHANGED <<attempt, stage>>

\* faulty variant of Validate: the result of validate() is dropped
Validate_Ignored ==
    /\ pc = "start"
    /\ backend \in {"ffmpeg", "ytdlp"}
    /\ pc' = "spawn"
    /\ attempt' = 1
    /\ stage' = FirstStage(1)
    /\ UNCHANGED <<others, backend, timing, clips, last_error, result, proc, pipe,
                   pipeOpen, nwritten, timer, file, hist, probes, sink>>

\* export_with_retry up to the loop: timing.validate()?
Validate ==
    /\ pc = "start"
    /\ backend \in {"ffmpeg", "ytdlp"}
    /\ IF IsErr(validate(timing))
       THEN /\ pc' = "done"
            /\ result' = validate(timing)
            /\ UNCHANGED <<attempt, stage>>
       ELSE /\ pc' = "spawn"
            /\ attempt' = 1
            /\ stage' = FirstStage(1)
            /\ UNCHANGED result
    /\ UNCHANGED <<others, backend, timing, clips, last_error, proc, pipe, pipeOpen,
                   nwritten, timer, file, hist, probes, sink>>

\* a process that has been waited for; its history is not kept
Reaped(st) == [state |-> "reaped", status |-> st, wrote |-> proc.wrote,
               stuck |-> FALSE, left |-> proc.left, lines |-> <<>>, sunk |-> 0]

\* a process that has just been spawned; `left`, `lines` and `sunk` are
\* history: the number of earlier children of the call that had not been
\* waited for when it was spawned, the lines it has written to the captured
\* pipe, and the number of events the sink had been given when it was spawned
StartedProc == [state |-> "running", status |-> 0, wrote |-> FALSE,
                stuck |-> FALSE,
                left |-> proc.left + (IF proc.state \in {"running", "exited"}
                                      THEN 1 ELSE 0),
                lines |-> <<>>, sunk |-> Len(sink)]

\* run_command_with_progress: cmd.spawn() succeeds; the reader and the timeout
\* are set up and the select! is entered
Spawn ==
    /\ pc = "spawn"
    /\ hist' = Append(hist, HistRecord("running"))
    /\ proc' = StartedProc
    /\ pipe' = <<>>
    /\ pipeOpen' = TRUE
    /\ timer' = 0
    /\ pc' = "select"
    /\ UNCHANGED <<others, backend, timing, clips, attempt, stage, last_error, result,
                   nwritten, file, probes, sink>>

\* run_command_with_progress: cmd.spawn() fails, the error goes to the Err arm
\* of the caller's match
SpawnFail ==
    /\ pc = "spawn"
    /\ hist' = Append(hist, HistRecord("spawnfail"))
    /\ NextStep(ErrRun(ToolKind, "Failed to start", Len(hist) + 1))
    /\ UNCHANGED <<others, backend, timing, clips, proc, pipe, pipeOpen, nwritten,
                   timer, file, probes, sink>>

----------------------------------------------------------------------------
(* The child process (ffmpeg or yt-dlp), as the supervisor can observe it *)

Waiting == pc \in {"select", "wait", "m_read", "m_wait"}

\* the tool prints a line on the captured pipe
ProcWriteLine ==
    /\ Waiting
    /\ proc.state = "running"
    /\ ~ proc.stuck
    /\ pipeOpen
    /\ nwritten < MaxLines
    /\ \E l \in LineChoices :
           /\ pipe' = Append(pipe, l)
           /\ proc' = [proc EXCEPT !.lines = Append(@, l)]
    /\ nwritten' = nwritten + 1
    /\ UNCHANGED <<others, backend, timing, clips, pc, attempt, stage, last_error,
                   result, pipeOpen, timer, file, hist, probes, sink>>

\* the tool opens output_path (-y: overwriting what is there) and starts writing
ProcWriteFile ==
    /\ Waiting
    /\ proc.state = "running"
    /\ ~ proc.stuck
    /\ ~ proc.wrote
    /\ proc' = [proc EXCEPT !.wrote = TRUE]
    /\ file' = [by |-> Len(hist), probe |-> Partial]
    /\ UNCHANGED <<others, backend, timing, clips, pc, attempt, stage, last_error,
                   result, pipe, pipeOpen, nwritten, timer, hist, probes, sink>>

\* the tool closes the captured stream while it keeps running
ProcClosePipe ==
    /\ Waiting
    /\ proc.state = "running"
    /\ ~ proc.stuck
    /\ pipeOpen
    /\ pipeOpen' = FALSE
    /\ UNCHANGED <<others, backend, timing, clips, pc, attempt, stage, last_error,
                   result, proc, pipe, nwritten, timer, file, hist, probes, sink>>

\* the tool exits by itself: with status 0 it leaves a finished file, with
\* another status whatever it had written until then
ProcExit ==
    /\ Waiting
    /\ proc.state = "running"
    /\ ~ proc.stuck
    /\ pipeOpen' = FALSE
    /\ \/ /\ proc' = [proc EXCEPT !.state = "exited", !.status = 0]
          /\ \E d \in ProbeChoices(timing.duration) :
                file' = [by |-> Len(hist), probe |-> d]
       \/ /\ proc' = [proc EXCEPT !.state = "exited", !.status = 1]
          /\ UNCHANGED file
    /\ UNCHANGED <<others, backend, timing, clips, pc, attempt, stage, last_error,
                   result, pipe, nwritten, timer, hist, probes, sink>>

\* yt-dlp writes to its stderr, which build_command has set to a pipe that
\* run_command_with_progress never reads: once the pipe's buffer is full the
\* write blocks, and the process can neither print nor exit
ProcBlock ==
    /\ backend = "ytdlp"
    /\ pc \in {"select", "wait"}
    /\ proc.state = "running"
    /\ ~ proc.stuck
    /\ proc' = [proc EXCEPT !.stuck = TRUE]
    /\ UNCHANGED <<others, backend, timing, clips, pc, attempt, stage, last_error,
                   result, pipe, pipeOpen, nwritten, timer, file, hist, probes, sink>>

\* wall-clock time passes on an armed timeout while the process runs
Tick ==
    /\ Waiting
    /\ proc.state = "running"
    /\ timer # TimerOff
    /\ timer < (IF backend = "montage" THEN MONTAGE_TIMEOUT ELSE EXPORT_TIMEOUT)
    /\ timer' = Min(timer + TickStep,
                    IF backend = "montage" THEN MONTAGE_TIMEOUT ELSE EXPORT_TIMEOUT)
    /\ UNCHANGED <<others, backend, timing, clips, pc, attempt, stage, last_error,
                   result, proc, pipe, pipeOpen, nwritten, file, hist, probes, sink>>

----------------------------------------------------------------------------
(* run_command_with_progress of both exporters *)

\* faulty variant of ReadLine: the newest line of the pipe is read first
ReadLine_Newest ==
    /\ pc \in {"select", "m_read"}
    /\ pipe # <<>>
    /\ pipe' = SubSeq(pipe, 1, Len(pipe) - 1)
    /\ LET percent == parse_line(Last(pipe))
       IN  sink' = IF percent = NoToken THEN sink ELSE Append(sink, percent)
    /\ UNCHANGED <<others, backend, timing, clips, pc, attempt, stage, last_error,
                   result, proc, pipeOpen, nwritten, timer, file, hist, probes>>

\* progress_task: next_line() yields a line; parse it, call the callback
ReadLine ==
    /\ pc \in {"select", "m_read"}
    /\ pipe # <<>>
    /\ pipe' = Tail(pipe)
    /\ LET percent == parse_line(Head(pipe))
       IN  sink' = IF percent = NoToken THEN sink ELSE Append(sink, percent)
    /\ UNCHANGED <<others, backend, timing, clips, pc, attempt, stage, last_error,
                   result, proc, pipeOpen, nwritten, timer, file, hist, probes>>

\* faulty variant of ReadEOF: end-of-stream ends the command as a failure
\* without child.wait()
ReadEOF_NoWait ==
    /\ pc = "select"
    /\ pipe = <<>>
    /\ ~ pipeOpen
    /\ timer' = TimerOff
    /\ hist' = SetOutcome(hist, "exit")
    /\ NextStep(ErrRun(ToolKind, "exited with code", Len(hist)))
    /\ UNCHANGED <<others, backend, timing, clips, proc, pipe, pipeOpen, nwritten,
                   file, probes, sink>>

\* faulty variant of ReadEOF: end-of-stream ends the command as a success
ReadEOF_Success ==
    /\ pc = "select"
    /\ pipe = <<>>
    /\ ~ pipeOpen
    /\ hist' = SetOutcome(hist, "ok")
    /\ timer' = TimerOff
    /\ IF backend = "ffmpeg"
       THEN pc' = "verify" /\ UNCHANGED result
       ELSE pc' = "done" /\ result' = Ok
    /\ UNCHANGED <<others, backend, timing, clips, attempt, stage, last_error,
                   proc, pipe, pipeOpen, nwritten, file, probes, sink>>

\* progress_task: next_line() yields end-of-stream, the select! is left by its
\* first branch and child.wait() is awaited next
ReadEOF ==
    /\ pc = "select"
    /\ pipe = <<>>
    /\ ~ pipeOpen
    /\ pc' = "wait"
    /\ UNCHANGED <<others, backend, timing, clips, attempt, stage, last_error, result,
                   proc, pipe, pipeOpen, nwritten, timer, file, hist, probes, sink>>

\* child.wait() (in the select! or after it) returns the exit status within
\* the timeout: Ok(Ok(status))
WaitExit ==
    /\ pc \in {"select", "wait"}
    /\ proc.state = "exited"
    /\ proc' = Reaped(proc.status)
    /\ timer' = TimerOff
    /\ pipe' = <<>>
    /\ IF proc.status = 0
       THEN /\ hist' = SetOutcome(hist, "ok")
            /\ IF backend = "ffmpeg"
               THEN pc' = "verify" /\ UNCHANGED result
               ELSE pc' = "done" /\ result' = Ok
            /\ UNCHANGED <<attempt, stage, last_error>>
       ELSE /\ hist' = SetOutcome(hist, "exit")
            /\ NextStep(ErrRun(ToolKind, "exited with code", Len(hist)))
    /\ UNCHANGED <<others, backend, timing, clips, pipeOpen, nwritten, file, probes, sink>>

\* child.wait() returns an I/O error: Ok(Err(e))
WaitError ==
    /\ pc \in {"select", "wait"}
    /\ proc.state = "exited"
    /\ proc' = Reaped(proc.status)
    /\ timer' = TimerOff
    /\ pipe' = <<>>
    /\ hist' = SetOutcome(hist, "waiterr")
    /\ NextStep(ErrRun(ToolKind, "wait error", Len(hist)))
    /\ UNCHANGED <<others, backend, timing, clips, pipeOpen, nwritten, file, probes, sink>>

\* faulty variant of Timeout: Timeout is returned without killing the child
Timeout_NoKill ==
    /\ pc \in {"select", "wait"}
    /\ proc.state = "running"
    /\ timer # TimerOff
    /\ timer >= EXPORT_TIMEOUT
    /\ pipe' = <<>>
    /\ timer' = TimerOff
    /\ hist' = SetOutcome(hist, "timeout")
    /\ NextStep(ErrRun("Timeout", "timed out", Len(hist)))
    /\ UNCHANGED <<others, backend, timing, clips, proc, pipeOpen, nwritten, file,
                   probes, sink>>

\* the timeout elapses before the inner future completes: Err(_), the child is
\* killed, the kill awaited, and Timeout returned
Timeout ==
    /\ pc \in {"select", "wait"}
    /\ proc.state = "running"
    /\ timer # TimerOff
    /\ timer >= EXPORT_TIMEOUT
    /\ proc' = Reaped(Killed)
    /\ pipeOpen' = FALSE
    /\ pipe' = <<>>
    /\ timer' = TimerOff
    /\ hist' = SetOutcome(hist, "timeout")
    /\ NextStep(ErrRun("Timeout", "timed out", Len(hist)))
    /\ UNCHANGED <<others, backend, timing, clips, nwritten, file, probes, sink>>

----------------------------------------------------------------------------
(* FfmpegExporter: verification of the output *)

\* verify_output once ffprobe has run on a file that probes as `probe`;
\* i is the index in hist of the command being verified
verify_output(probe, expected, i) ==
    IF probe \in {Unreadable, Absent, Partial}
    THEN ErrVerify("CorruptedOutput", "ffprobe failed to read output file", i)
    ELSE IF probe = Garbage
    THEN ErrVerify("CorruptedOutput", "Failed to parse duration from ffprobe", i)
    ELSE IF ~ DurationOk(probe, expected)
    THEN ErrVerify("DurationMismatch", "Duration mismatch", i)
    ELSE Ok

\* faulty variant of AfterVerify: the result of verifying a stream copy is
\* not looked at
AfterVerify_CopyUnchecked(v) ==
    IF v = Ok \/ stage = "copy"
    THEN /\ hist' = SetVerify(hist, "accepted")
         /\ pc' = "done"
         /\ result' = Ok
         /\ UNCHANGED <<attempt, stage, last_error, file>>
    ELSE /\ hist' = SetVerify(hist, "rejected")
         /\ file' = NoFile
         /\ NextStep(v)

\* faulty variant of AfterVerify: only a rejected stream copy is removed
AfterVerify_RemoveCopyOnly(v) ==
    IF v = Ok
    THEN /\ hist' = SetVerify(hist, "accepted")
         /\ pc' = "done"
         /\ result' = Ok
         /\ UNCHANGED <<attempt, stage, last_error, file>>
    ELSE /\ hist' = SetVerify(hist, "rejected")
         /\ file' = (IF stage = "copy" THEN NoFile ELSE file)
         /\ NextStep(IF stage = "copy" THEN last_error ELSE v)

\* faulty variant of AfterVerify: a rejected output is left in place
AfterVerify_NoRemove(v) ==
    IF v = Ok
    THEN /\ hist' = SetVerify(hist, "accepted")
         /\ pc' = "done"
         /\ result' = Ok
         /\ UNCHANGED <<attempt, stage, last_error, file>>
    ELSE /\ hist' = SetVerify(hist, "rejected")
         /\ UNCHANGED file
         /\ NextStep(IF stage = "copy" THEN last_error ELSE v)

\* The match arm Ok(()) of export_with_retry after a copy or encode command,
\* v being what verify_output returned: success returns, a failure removes
\* the file, and only after an encode command records the error.
AfterVerify(v) ==
    IF v = Ok
    THEN /\ hist' = SetVerify(hist, "accepted")
         /\ pc' = "done"
         /\ result' = Ok
         /\ UNCHANGED <<attempt, stage, last_error, file>>
    ELSE /\ hist' = SetVerify(hist, "rejected")
         /\ file' = NoFile
         /\ NextStep(IF stage = "copy" THEN last_error ELSE v)

\* verify_output runs ffprobe on output_path and judges its answer
VerifyOutput ==
    /\ pc = "verify"
    /\ probes' = probes + 1
    /\ AfterVerify(verify_output(file.probe, timing.duration, Len(hist)))
    /\ UNCHANGED <<others, backend, timing, clips, proc, pipe, pipeOpen, nwritten,
                   timer, sink>>

\* verify_output cannot start ffprobe: Ffmpeg("Failed to run ffprobe")
VerifyProbeFail ==
    /\ pc = "verify"
    /\ AfterVerify(ErrVerify("Ffmpeg", "Failed to run ffprobe", Len(hist)))
    /\ UNCHANGED <<others, backend, timing, clips, proc, pipe, pipeOpen, nwritten,
                   timer, probes, sink>>

\* what ffprobe leaves: its exit status and the characters of its stdout
ProbeOutput(st, out) == [status |-> st, stdout |-> out]

\* what ffprobe prints for a duration: seconds with six decimals and a line feed
ProbeText(centis) ==
    Decimal(centis \div 100) \o <<".">> \o Pad2(centis % 100)
        \o <<"0", "0", "0", "0", "\n">>

\* str::trim on the characters of the model
trim_chars(s) ==
    LET keep == { i \in 1..Len(s) : s[i] \notin {" ", "\n"} }
    IN  IF keep = {} THEN <<>>
        ELSE SubSeq(s, CHOOSE i \in keep : \A j \in keep : i <= j,
                       CHOOSE i \in keep : \A j \in keep : j <= i)

\* str::parse::<f64> on a decimal numeral, in centiseconds (the numerals of
\* the model have no digit other than 0 after the second decimal); Garbage
\* for a text that is no number
parse_f64(s) ==
    LET neg == s # <<>> /\ s[1] = "-"
        body == IF neg THEN Tail(s) ELSE s
        dots == { i \in 1..Len(body) : body[i] = "." }
        IsDigits(d) == \A i \in 1..Len(d) : \E k \in 1..10 : Digit[k] = d[i]
        Value(d) == LET v[i \in 0..Len(d)] ==
                            IF i = 0 THEN 0
                            ELSE 10 * v[i - 1] + ((CHOOSE k \in 1..10 : Digit[k] = d[i]) - 1)
                    IN  v[Len(d)]
    IN  IF Cardinality(dots) > 1 THEN Garbage
        ELSE LET p == IF dots = {} THEN Len(body) + 1 ELSE CHOOSE i \in dots : TRUE
                 whole == SubSeq(body, 1, p - 1)
                 frac == SubSeq(body, p + 1, Len(body))
                 frac2 == SubSeq(frac \o <<"0", "0">>, 1, 2)
             IN  IF ~ IsDigits(whole) \/ ~ IsDigits(frac) \/ Len(whole) + Len(frac) = 0
                 THEN Garbage
                 ELSE (IF neg THEN -1 ELSE 1) * (100 * Value(whole) + Value(frac2))

\* verify_output from ffprobe's output to the duration test: the file probes
\* as Unreadable when ffprobe exits with a failure status, as Garbage when its
\* trimmed stdout is no number
probe_of(output) ==
    IF output.status # 0 THEN Unreadable
    ELSE parse_f64(trim_chars(output.stdout))

\* expected durations: around the 10 s at which 15% reach 1.5 s, the bounds
\* of a valid clip, the unit tests' 30 s
ExpectedInputs == {MIN_DURATION, 500, 1000, 1100, 3000, MAX_DURATION}

\* outputs of ffprobe for an expected duration: the expected duration, the
\* edges of the tolerance on both sides, nothing, N/A, a failure status
ProbeOutputs(expected) ==
    { ProbeOutput(0, ProbeText(a)) :
          a \in { expected, 0,
                  expected + Tolerance(expected), expected + Tolerance(expected) + 1,
                  Max(0, expected - Tolerance(expected)),
                  Max(0, expected - Tolerance(expected) - 1),
                  expected + 150, expected + 151 } }
        \cup { ProbeOutput(0, <<"N", "/", "A", "\n">>), ProbeOutput(0, <<>>),
               ProbeOutput(0, <<"-">> \o ProbeText(expected)),
               ProbeOutput(0, ProbeText(expected) \o ProbeText(expected)),
               ProbeOutput(1, <<>>), ProbeOutput(1, ProbeText(expected)) }

\* the calls of verify_output on its own
VerifyInputs ==
    UNION { { [fn |-> "verify_output", expected |-> e, output |-> o] :
                  o \in ProbeOutputs(e) } : e \in ExpectedInputs }

\* FfmpegExporter::verify_output(path, expected_duration), ffprobe having run
VerifyOutputCall ==
    /\ call.fn = "verify_output"
    /\ ret = NotReturned
    /\ ret' = Returns(verify_output(probe_of(call.output), call.expected, 0))
    /\ UNCHANGED <<exportVars, vod, rerun, resolverVars, proxyVars, parser,
                   parseResult, call, configVars, clipsVars>>

----------------------------------------------------------------------------
(* MontageExporter::export_with_progress *)

\* up to the stderr loop: the two input checks, then cmd.spawn()
MontageStart ==
    /\ pc = "start"
    /\ backend = "montage"
    /\ stage' = "montage"
    /\ IF clips = "empty"
       THEN /\ pc' = "done"
            /\ result' = ErrRun("Ffmpeg", "No clips to export", 0)
            /\ UNCHANGED <<hist, proc, pipeOpen>>
       ELSE IF clips = "missing"
       THEN /\ pc' = "done"
            /\ result' = ErrRun("Ffmpeg", "Clip file not found", 0)
            /\ UNCHANGED <<hist, proc, pipeOpen>>
       ELSE \/ /\ pc' = "m_read"
               /\ hist' = Append(hist, [HistRecord("running") EXCEPT !.cmd = "montage"])
               /\ proc' = StartedProc
               /\ pipeOpen' = TRUE
               /\ UNCHANGED result
            \/ /\ pc' = "done"
               /\ hist' = Append(hist, [HistRecord("spawnfail") EXCEPT !.cmd = "montage"])
               /\ result' = ErrRun("Ffmpeg", "Failed to start", 1)
               /\ UNCHANGED <<proc, pipeOpen>>
    /\ UNCHANGED <<others, backend, timing, clips, attempt, last_error, pipe, nwritten,
                   timer, file, probes, sink>>

\* the stderr loop ends at end-of-stream; only then is the timeout created,
\* around child.wait()
MontageReadEOF ==
    /\ pc = "m_read"
    /\ pipe = <<>>
    /\ ~ pipeOpen
    /\ pc' = "m_wait"
    /\ timer' = 0
    /\ UNCHANGED <<others, backend, timing, clips, attempt, stage, last_error, result,
                   proc, pipe, pipeOpen, nwritten, file, hist, probes, sink>>

\* timeout(MONTAGE_TIMEOUT, child.wait()) yields the status or an I/O error
MontageWaitExit ==
    /\ pc = "m_wait"
    /\ proc.state = "exited"
    /\ proc' = Reaped(proc.status)
    /\ timer' = TimerOff
    /\ pc' = "done"
    /\ \/ /\ hist' = SetOutcome(hist, IF proc.status = 0 THEN "ok" ELSE "exit")
          /\ result' = IF proc.status = 0 THEN Ok
                       ELSE ErrRun("Ffmpeg", "exited with code", 1)
       \/ /\ hist' = SetOutcome(hist, "waiterr")
          /\ result' = ErrRun("Ffmpeg", "wait error", 1)
    /\ UNCHANGED <<others, backend, timing, clips, attempt, stage, last_error, pipe,
                   pipeOpen, nwritten, file, probes, sink>>

\* the timeout around child.wait() elapses: kill, Timeout
MontageTimeout ==
    /\ pc = "m_wait"
    /\ proc.state = "running"
    /\ timer >= MONTAGE_TIMEOUT
    /\ proc' = Reaped(Killed)
    /\ timer' = TimerOff
    /\ pc' = "done"
    /\ hist' = SetOutcome(hist, "timeout")
    /\ result' = ErrRun("Timeout", "timed out", 1)
    /\ UNCHANGED <<others, backend, timing, clips, attempt, stage, last_error, pipe,
                   pipeOpen, nwritten, file, probes, sink>>

----------------------------------------------------------------------------
(* SmartExporter and the caller of the exporters *)

is_direct_video(u) ==
    LET lower == to_lowercase(u)
    IN  \/ ends_with(lower, <<".mp4">>)
        \/ ends_with(lower, <<".webm">>)
        \/ ends_with(lower, <<".mkv">>)
        \/ contains(lower, <<".mp4", "?">>)

\* SmartExporter::export_with_progress: the choice of the backend, whose
\* export_with_retry is then entered
Dispatch ==
    /\ pc = "dispatch"
    /\ backend' = (IF vod.is_hls \/ is_direct_video(vod.url)
                   THEN "ffmpeg" ELSE "ytdlp")
    /\ pc' = "start"
    /\ UNCHANGED <<others, timing, clips, attempt, stage, last_error, result,
                   proc, pipe, pipeOpen, nwritten, timer, file, hist, probes,
                   sink>>

\* export_clips, run again after the call has returned, reaches the same clip:
\* a clip whose output_path exists is counted as Skipped and not exported
ExistsCheck ==
    /\ pc = "done"
    /\ backend \in {"ffmpeg", "ytdlp"}
    /\ rerun = "none"
    /\ rerun' = (IF file.probe # Absent THEN "Skipped" ELSE "export")
    /\ UNCHANGED <<parserVars, exportVars, vod, resolverVars, proxyVars>>

\* descriptors handed to SmartExporter
HlsVod ==
    [url |-> <<"https://", "cdn", "/", "id", "/", "chunked", "/", "index-dvr",
               ".m3u8">>,
     is_hls |-> TRUE]

PageVod ==
    [url |-> <<"https://", "youtube.com", "/", "watch", "?", "v">>,
     is_hls |-> FALSE]

NoVod == [url |-> <<>>, is_hls |-> FALSE]

DirectUrls ==
    { <<"https://", "host", "/", "a", ".mp4">>,
      <<"https://", "host", "/", "a", ".webm">>,
      <<"https://", "host", "/", "a", ".mkv">>,
      <<"https://", "host", "/", "a", ".MP4">>,
      <<"https://", "host", "/", "a", ".mp4", "?", "t">>,
      <<"https://", "host", "/", "a", ".webm", "?", "t">>,
      <<"https://", "host", "/", "a", ".mp4", "/", "page">>,
      <<"https://", "host", "/", "a", ".m3u8", "?", "t">>,
      <<"https://", "host", "/", "watch", "?", "f", ".mp4">>,
      <<"https://", "host", "/", "watch", "?", "f", ".mkv">>,
      <<"https://", "host", "/", "watch", "?", "f", ".mp4", "?", "g">> }

VodInputs ==
    {HlsVod, PageVod} \cup { [url |-> u, is_hls |-> FALSE] : u \in DirectUrls }

\* the calls of SmartExporter: one descriptor of each backend with the
\* timings (the longest clip with the yt-dlp backend only, the unit tests'
\* clip with the ffmpeg backend only), every descriptor with a timing that
\* validate() refuses
ExportInputs ==
    ({PageVod} \X (TimingInputs \ {[start |-> 1000, duration |-> 3000]}))
        \cup ({HlsVod} \X (TimingInputs \ {[start |-> 0, duration |-> MAX_DURATION]}))
        \cup (VodInputs \X {[start |-> 0, duration |-> MIN_DURATION - 1]})

----------------------------------------------------------------------------
(* VodResolverChain, TwitchResolver, YoutubeResolver *)

QUALITIES == <<"chunked", "1080p60", "720p60", "480p30", "360p30">>

\* maximal runs of decimal digits
DigitTokens == {"123", "456"}

NoId == ""

\* capture of the regex twitch\.tv/videos?/(\d+) matched at position i
IdAt(u, i) ==
    IF MatchAt(u, <<"twitch.tv/video", "/">>, i)
          /\ i + 2 <= Len(u) /\ u[i + 2] \in DigitTokens
    THEN u[i + 2]
    ELSE IF MatchAt(u, <<"twitch.tv/video", "s", "/">>, i)
               /\ i + 3 <= Len(u) /\ u[i + 3] \in DigitTokens
         THEN u[i + 3]
         ELSE NoId

\* faulty variant of extract_vod_id: the regex is twitch\.tv/video/(\d+)
extract_vod_id_NoPlural(u) ==
    LET hits == { i \in 1..Len(u) :
                    /\ MatchAt(u, <<"twitch.tv/video", "/">>, i)
                    /\ i + 2 <= Len(u) /\ u[i + 2] \in DigitTokens }
    IN  IF hits = {} THEN NoId
        ELSE u[(CHOOSE i \in hits : \A j \in hits : i <= j) + 2]

\* TwitchResolver::extract_vod_id: the capture of the leftmost match
extract_vod_id(u) ==
    LET hits == { i \in 1..Len(u) : IdAt(u, i) # NoId }
    IN  IF hits = {} THEN NoId
        ELSE IdAt(u, CHOOSE i \in hits : \A j \in hits : i <= j)

\* TwitchResolver::can_handle
twitch_can_handle(u) == contains(u, <<"twitch.tv/video">>)

\* YoutubeResolver::can_handle
youtube_can_handle(u) ==
    contains(u, <<"youtube.com">>) \/ contains(u, <<"youtu.be">>)

\* PlatformResult values
PlatformErr(k) == [kind |-> k]

OkVod(u, hls) == [kind |-> "Ok", vod |-> [url |-> u, is_hls |-> hls]]

\* reqwest::Url::parse on the urls of the model: an absolute url starts with
\* a scheme; an https url has a host and a path that starts with "/"
ParseUrl(u) ==
    IF u = <<>> \/ u[1] \notin {"https://", "data:"}
    THEN [ok |-> FALSE, hasHost |-> FALSE, host |-> "", path |-> <<>>]
    ELSE IF u[1] = "data:"
    THEN [ok |-> TRUE, hasHost |-> FALSE, host |-> "", path |-> Tail(u)]
    ELSE IF Len(u) < 2 \/ u[2] = "/"
    THEN [ok |-> FALSE, hasHost |-> FALSE, host |-> "", path |-> <<>>]
    ELSE [ok |-> TRUE, hasHost |-> TRUE, host |-> u[2],
          path |-> IF Len(u) = 2 THEN <<"/">> ELSE SubSeq(u, 3, Len(u))]

\* str::split('/'): the pieces between the slashes, empty pieces included
RECURSIVE split(_)
split(s) ==
    IF \A i \in 1..Len(s) : s[i] # "/"
    THEN <<s>>
    ELSE LET i == CHOOSE k \in 1..Len(s) :
                      s[k] = "/" /\ \A j \in 1..(k - 1) : s[j] # "/"
         IN  <<SubSeq(s, 1, i - 1)>> \o split(SubSeq(s, i + 1, Len(s)))

\* TwitchResolver::parse_seek_url: the set of its possible outcomes.
\* storyboards_idx is the zero-based position; storyboards_idx - 1 on
\* position 0 overflows usize: a panic where overflow is checked, else a
\* wrapped index that get() answers with None.
parse_seek_url(seek_url) ==
    LET parsed == ParseUrl(seek_url)
        path_segments == split(parsed.path)
        found == { k \in 1..Len(path_segments) :
                     contains(path_segments[k], <<"storyboards">>) }
        storyboards_idx == (CHOOSE k \in found : \A j \in found : k <= j) - 1
    IN  IF ~ parsed.ok THEN { PlatformErr("ParseError") }
        ELSE IF ~ parsed.hasHost THEN { PlatformErr("ParseError") }
        ELSE IF found = {} THEN { PlatformErr("ParseError") }
        ELSE IF storyboards_idx = 0
        THEN { [kind |-> "Panic"], PlatformErr("ParseError") }
        ELSE { [kind |-> "Ok", domain |-> parsed.host,
                vod_special_id |-> path_segments[storyboards_idx]] }

\* TwitchResolver::build_playlist_url
build_playlist_url(domain, vod_special_id, vod_id, quality, broadcast_type) ==
    <<"https://", domain, "/">> \o vod_special_id \o <<"/", quality, "/">>
        \o (IF LowerToken(broadcast_type) = "highlight"
             THEN <<"highlight-", vod_id, ".m3u8">>
             ELSE <<"index-dvr", ".m3u8">>)

\* faulty variant of is_url_valid: any response counts, whatever its status
is_url_valid_AnyStatus(answer) == answer # "transport"

\* TwitchResolver::is_url_valid on the answer to the HEAD request: "ok" is a
\* response with a success status, "status" a response with another status,
\* "transport" no response
is_url_valid(answer) == answer = "ok"

NoCtx == [vod_id |-> NoId, broadcast_type |-> "", domain |-> "",
          vod_special_id |-> <<>>]

\* the HEAD request of the loop over QUALITIES, c being the locals
HeadRequest(c, q) ==
    [kind |-> "HEAD", quality |-> q,
     url |-> build_playlist_url(c.domain, c.vod_special_id, c.vod_id,
                                QUALITIES[q], c.broadcast_type)]

\* the resolve call returns r
ResolveReturns(r) ==
    /\ resolved' = r
    /\ rpc' = "r_done"

\* faulty variant of ChainResolve: YoutubeResolver is asked first
ChainResolve_YoutubeFirst ==
    /\ rpc = "chain"
    /\ IF youtube_can_handle(url)
       THEN /\ delegated' = Append(delegated, "youtube")
            /\ ResolveReturns(OkVod(url, FALSE))
            /\ UNCHANGED <<ctx, requests>>
       ELSE IF twitch_can_handle(url)
       THEN /\ delegated' = Append(delegated, "twitch")
            /\ IF extract_vod_id(url) = NoId
               THEN /\ ResolveReturns(PlatformErr("InvalidUrl"))
                    /\ UNCHANGED <<ctx, requests>>
               ELSE /\ ctx' = [ctx EXCEPT !.vod_id = extract_vod_id(url)]
                    /\ requests' = Append(requests,
                                          [kind |-> "gql", id |-> ctx'.vod_id])
                    /\ rpc' = "t_meta"
                    /\ UNCHANGED resolved
       ELSE /\ ResolveReturns(OkVod(url, contains(url, <<".m3u8">>)))
            /\ UNCHANGED <<ctx, requests, delegated>>
    /\ UNCHANGED <<parserVars, proxyVars, exportVars, vod, rerun, url, upstream, qi, run, first>>

\* faulty variant of ChainResolve: a resolver that failed in the first call is
\* not asked again
ChainResolve_SkipFailed ==
    /\ rpc = "chain"
    /\ IF twitch_can_handle(url) /\ first.kind \in {"Pending", "Ok"}
       THEN /\ delegated' = Append(delegated, "twitch")
            /\ IF extract_vod_id(url) = NoId
               THEN /\ ResolveReturns(PlatformErr("InvalidUrl"))
                    /\ UNCHANGED <<ctx, requests>>
               ELSE /\ ctx' = [ctx EXCEPT !.vod_id = extract_vod_id(url)]
                    /\ requests' = Append(requests,
                                          [kind |-> "gql", id |-> ctx'.vod_id])
                    /\ rpc' = "t_meta"
                    /\ UNCHANGED resolved
       ELSE IF youtube_can_handle(url)
       THEN /\ delegated' = Append(delegated, "youtube")
            /\ ResolveReturns(OkVod(url, FALSE))
            /\ UNCHANGED <<ctx, requests>>
       ELSE /\ ResolveReturns(OkVod(url, contains(url, <<".m3u8">>)))
            /\ UNCHANGED <<ctx, requests, delegated>>
    /\ UNCHANGED <<parserVars, proxyVars, exportVars, vod, rerun, url, upstream, qi, run, first>>

\* VodResolverChain::resolve up to the first await of the resolver it
\* delegates to: TwitchResolver::resolve runs to the metadata request,
\* YoutubeResolver::resolve and the fallback return at once
ChainResolve ==
    /\ rpc = "chain"
    /\ IF twitch_can_handle(url)
       THEN /\ delegated' = Append(delegated, "twitch")
            /\ IF extract_vod_id(url) = NoId
               THEN /\ ResolveReturns(PlatformErr("InvalidUrl"))
                    /\ UNCHANGED <<ctx, requests>>
               ELSE /\ ctx' = [ctx EXCEPT !.vod_id = extract_vod_id(url)]
                    /\ requests' = Append(requests,
                                          [kind |-> "gql", id |-> ctx'.vod_id])
                    /\ rpc' = "t_meta"
                    /\ UNCHANGED resolved
       ELSE IF youtube_can_handle(url)
       THEN /\ delegated' = Append(delegated, "youtube")
            /\ ResolveReturns(OkVod(url, FALSE))
            /\ UNCHANGED <<ctx, requests>>
       ELSE /\ ResolveReturns(OkVod(url, contains(url, <<".m3u8">>)))
            /\ UNCHANGED <<ctx, requests, delegated>>
    /\ UNCHANGED <<parserVars, proxyVars, exportVars, vod, rerun, url, upstream, qi, run, first>>

\* the metadata response arrives: fetch_metadata returns, and on a video with
\* a seek previews url that parses the first quality is probed
MetaResponse ==
    /\ rpc = "t_meta"
    /\ LET meta == upstream.meta
       IN  IF meta.resp = "transport"
           THEN ResolveReturns(PlatformErr("ApiError"))
                    /\ UNCHANGED <<ctx, qi, requests>>
           ELSE IF meta.resp = "decode"
           THEN ResolveReturns(PlatformErr("ParseError"))
                    /\ UNCHANGED <<ctx, qi, requests>>
           ELSE IF meta.resp = "no_video" \/ ~ meta.hasSeek
           THEN ResolveReturns(PlatformErr("VodNotFound"))
                    /\ UNCHANGED <<ctx, qi, requests>>
           ELSE \E parsed \in parse_seek_url(meta.seek) :
                    IF parsed.kind = "Ok"
                    THEN /\ ctx' = [ctx EXCEPT
                                      !.broadcast_type = meta.broadcast_type,
                                      !.domain = parsed.domain,
                                      !.vod_special_id = parsed.vod_special_id]
                         /\ qi' = 1
                         /\ requests' = Append(requests, HeadRequest(ctx', 1))
                         /\ rpc' = "t_probe"
                         /\ UNCHANGED resolved
                    ELSE /\ ResolveReturns(parsed)
                         /\ UNCHANGED <<ctx, qi, requests>>
    /\ UNCHANGED <<parserVars, proxyVars, exportVars, vod, rerun, url, upstream, delegated, run, first>>

\* the answer to the HEAD request on the playlist of quality qi arrives
ProbeResponse ==
    /\ rpc = "t_probe"
    /\ IF is_url_valid(upstream.up[qi])
       THEN /\ ResolveReturns(OkVod(Last(requests).url, TRUE))
            /\ UNCHANGED <<qi, requests>>
       ELSE IF qi < Len(QUALITIES)
       THEN /\ qi' = qi + 1
            /\ requests' = Append(requests, HeadRequest(ctx, qi + 1))
            /\ UNCHANGED <<rpc, resolved>>
       ELSE /\ ResolveReturns(PlatformErr("NoValidQuality"))
            /\ UNCHANGED <<qi, requests>>
    /\ UNCHANGED <<parserVars, proxyVars, exportVars, vod, rerun, url, upstream, ctx, delegated, run,
                   first>>

\* the caller (resolve_vod_url, export_clips) resolves the same url again
ResolveAgain ==
    /\ rpc = "r_done"
    /\ run < ResolveRuns
    /\ run' = run + 1
    /\ first' = (IF run = 1 THEN resolved ELSE first)
    /\ rpc' = "chain"
    /\ resolved' = Pending
    /\ ctx' = NoCtx
    /\ qi' = 0
    /\ requests' = <<>>
    /\ delegated' = <<>>
    /\ UNCHANGED <<parserVars, proxyVars, exportVars, vod, rerun, url, upstream>>

\* urls given to the resolver chain
UrlInputs ==
    { <<"https://", "www.", "twitch.tv/video", "s", "/", "123">>,
      <<"https://", "twitch.tv/video", "/", "456", "?", "t">>,
      <<"https://", "twitch.tv/video", "s", "/", "abc">>,
      <<"https://", "twitch.tv/video", "graphy">>,
      <<"https://", "twitch.tv/video", "s", "/", "abc", "/",
        "twitch.tv/video", "/", "123">>,
      <<"https://", "twitch.tv", "/", "streamer">>,
      <<"https://", "youtube.com", "/", "watch", "?", "v">>,
      <<"https://", "youtu.be", "/", "v">>,
      <<"https://", "youtube.com", "/", "watch", "?", "twitch.tv/video">>,
      <<"https://", "youtube.com", "/", "watch", "?", "twitch.tv/video", "/",
        "123">>,
      <<"https://", "host", "/", "a", ".m3u8">>,
      <<"https://", "host", "/", "a", ".m3u8", "?", "t">>,
      <<"https://", "host", "/", ".m3u8", "/", "a">>,
      <<"https://", "host", "/", "a", ".mp4">> }

\* seek previews urls of the metadata response
SeekInputs ==
    { <<"https://", "cdn", "/", "sid", "/", "storyboards", "/", "123",
        "-info.json">>,
      <<"https://", "cdn", "/", "sid", "/", "123", "-", "storyboards",
        "-info.json">>,
      <<"https://", "cdn", "/", "a", "/", "sid", "/", "storyboards", "/",
        "storyboards">>,
      <<"https://", "cdn", "/", "storyboards", "/", "123", "-info.json">>,
      <<"https://", "cdn", "/", "sid", "/", "/", "storyboards", "/", "123">>,
      <<"https://", "cdn", "/", "sid", "/", "123", "-info.json">>,
      <<"https://", "cdn">>,
      <<"data:", "storyboards">>,
      <<"cdn", "/", "sid", "/", "storyboards">> }

NoMeta(r) == [resp |-> r, broadcast_type |-> "", hasSeek |-> FALSE, seek |-> <<>>]

AllFail == [q \in 1..Len(QUALITIES) |-> "status"]

\* the third quality is the only one that answers with a success status
ThirdOnly ==
    [q \in 1..Len(QUALITIES) |->
        IF q = 3 THEN "ok" ELSE IF q = 2 THEN "transport" ELSE "status"]

VideoMeta(b, s) ==
    [resp |-> "video", broadcast_type |-> b, hasSeek |-> TRUE, seek |-> s]

\* the seek previews url Twitch serves
TwitchSeek ==
    <<"https://", "cdn", "/", "sid", "/", "storyboards", "/", "123",
      "-info.json">>

\* the upstream states: the metadata responses that end the call; every
\* seek previews url; every combination of answers to the probes
UpstreamInputs ==
    { [meta |-> NoMeta(r), up |-> AllFail] :
        r \in {"transport", "decode", "no_video", "video"} }
    \cup
    { [meta |-> VideoMeta("ARCHIVE", s), up |-> f] :
        s \in SeekInputs, f \in {AllFail, ThirdOnly} }
    \cup
    { [meta |-> VideoMeta(b, TwitchSeek), up |-> f] :
        b \in {"ARCHIVE", "HIGHLIGHT"},
        f \in [1..Len(QUALITIES) -> {"ok", "status", "transport"}] }

\* the calls of the resolver chain: one Twitch url with every upstream state,
\* every url with one upstream state
ResolveInputs ==
    ({<<"https://", "www.", "twitch.tv/video", "s", "/", "123">>}
        \X UpstreamInputs)
    \cup
    (UrlInputs \X {[meta |-> VideoMeta("HIGHLIGHT", TwitchSeek),
                    up |-> ThirdOnly]})

NoUpstream == [meta |-> NoMeta("none"), up |-> AllFail]

----------------------------------------------------------------------------
(* The relay port: init_proxy_port, start_proxy_server, get_proxy_url *)

\* no url has been made yet
NoPort == -1

\* the ports init_proxy_port tries
PortRange == BASE_PROXY_PORT..(BASE_PROXY_PORT + MAX_PORT_ATTEMPTS - 1)

\* faulty variant of TryBind: the loop goes on after a port has been stored
TryBind_KeepTrying ==
    /\ ppc = "p_init"
    /\ LET port == (BASE_PROXY_PORT + port_offset) % 65536
       IN  /\ IF port \notin busy
              THEN /\ ACTIVE_PORT' = port
                   /\ stores' = stores + 1
              ELSE UNCHANGED <<ACTIVE_PORT, stores>>
           /\ IF port_offset + 1 < MAX_PORT_ATTEMPTS
              THEN /\ port_offset' = port_offset + 1
                   /\ UNCHANGED <<ppc, server>>
              ELSE /\ ppc' = "p_app"
                   /\ server' = (IF ACTIVE_PORT' # 0 THEN "starting" ELSE server)
                   /\ UNCHANGED port_offset
    /\ UNCHANGED <<parserVars, exportVars, vod, rerun, resolverVars, busy, urlPort,
                   rewritePort, listenPort, handlerVars>>

\* one iteration of the loop of init_proxy_port, called by run(): the port is
\* bound, stored and released again; run() spawns the relay thread when a
\* port was found and goes on to run the application
TryBind ==
    /\ ppc = "p_init"
    /\ LET port == (BASE_PROXY_PORT + port_offset) % 65536
       IN  IF port \notin busy
           THEN /\ ACTIVE_PORT' = port
                /\ stores' = stores + 1
                /\ ppc' = "p_app"
                /\ server' = "starting"
                /\ UNCHANGED port_offset
           ELSE IF port_offset + 1 < MAX_PORT_ATTEMPTS
           THEN /\ port_offset' = port_offset + 1
                /\ UNCHANGED <<ACTIVE_PORT, stores, ppc, server>>
           ELSE /\ ppc' = "p_app"
                /\ UNCHANGED <<ACTIVE_PORT, stores, port_offset, server>>
    /\ UNCHANGED <<parserVars, exportVars, vod, rerun, resolverVars, busy, urlPort,
                   rewritePort, listenPort, handlerVars>>

\* another process binds the reserved port before the relay thread does
OtherProcessBinds ==
    /\ server = "starting"
    /\ ACTIVE_PORT \notin busy
    /\ busy' = busy \cup {ACTIVE_PORT}
    /\ UNCHANGED <<parserVars, exportVars, vod, rerun, resolverVars, ACTIVE_PORT, ppc,
                   port_offset, server, stores, urlPort, rewritePort,
                   listenPort, handlerVars>>

\* faulty variant of StartProxyServer: when the stored port cannot be bound
\* the relay listens on the next one
StartProxyServer_NextPort ==
    /\ server = "starting"
    /\ LET port == ACTIVE_PORT
       IN  IF port = 0
           THEN server' = "stopped" /\ UNCHANGED listenPort
           ELSE IF port \in busy
           THEN server' = "serving" /\ listenPort' = port + 1
           ELSE server' = "serving" /\ listenPort' = port
    /\ UNCHANGED <<parserVars, exportVars, vod, rerun, resolverVars, ACTIVE_PORT, ppc,
                   port_offset, busy, stores, urlPort, rewritePort,
                   handlerVars>>

\* start_proxy_server on the relay thread, up to axum::serve: it returns
\* when no port was stored or the stored port cannot be bound
StartProxyServer ==
    /\ server = "starting"
    /\ LET port == ACTIVE_PORT
       IN  IF port = 0
           THEN server' = "stopped" /\ UNCHANGED listenPort
           ELSE IF port \in busy
           THEN server' = "stopped" /\ UNCHANGED listenPort
           ELSE server' = "serving" /\ listenPort' = port
    /\ UNCHANGED <<parserVars, exportVars, vod, rerun, resolverVars, ACTIVE_PORT, ppc,
                   port_offset, busy, stores, urlPort, rewritePort,
                   handlerVars>>

\* the get_proxy_url command of the running application
GetProxyUrl ==
    /\ ppc = "p_app"
    /\ urlPort' = ACTIVE_PORT
    /\ UNCHANGED <<parserVars, exportVars, vod, rerun, resolverVars, ACTIVE_PORT, ppc,
                   port_offset, server, busy, stores, rewritePort,
                   listenPort, handlerVars>>

\* the ports other processes hold when the application starts: the first k
\* of the range, or some in its middle
BusyInputs ==
    { BASE_PROXY_PORT..(BASE_PROXY_PORT + k - 1) : k \in 0..MAX_PORT_ATTEMPTS }
        \cup { {BASE_PROXY_PORT, BASE_PROXY_PORT + 2},
               PortRange \ {BASE_PROXY_PORT + 4} }

----------------------------------------------------------------------------
(* The relay's handler: resolve_url, rewrite_uri_attribute, proxy_handler *)

\* str::starts_with
starts_with(s, p) == MatchAt(s, p, 1)

\* str::find: the position of the first occurrence, 0 for None
find(s, p) ==
    IF contains(s, p)
    THEN CHOOSE i \in 1..Len(s) :
             MatchAt(s, p, i) /\ \A j \in 1..(i - 1) : ~ MatchAt(s, p, j)
    ELSE 0

\* str::trim: white space is the token " "
trim(s) ==
    LET inked == { i \in 1..Len(s) : s[i] # " " }
    IN  IF inked = {} THEN <<>>
        ELSE SubSeq(s, CHOOSE i \in inked : \A k \in inked : i <= k,
                       CHOOSE i \in inked : \A k \in inked : k <= i)

\* u16 Display on the ports of the model
PortStr(p) ==
    CASE p = 0 -> "0"
      [] p = 9878 -> "9878"
      [] p = 9879 -> "9879"
      [] p = 9880 -> "9880"
      [] p = 9881 -> "9881"
      [] p = 9882 -> "9882"
      [] p = 9883 -> "9883"
      [] p = 9884 -> "9884"
      [] p = 9885 -> "9885"
      [] p = 9886 -> "9886"
      [] p = 9887 -> "9887"
      [] OTHER -> "other"

\* urlencoding::encode on the tokens of the model: letters, digits, "-", "_",
\* "." and "~" stay, every other byte becomes %XX
EncodeToken(t) ==
    CASE t = "https://" -> "https%3A%2F%2F"
      [] t = "http://" -> "http%3A%2F%2F"
      [] t = "data:" -> "data%3A"
      [] t = "//" -> "%2F%2F"
      [] t = "/" -> "%2F"
      [] t = "?" -> "%3F"
      [] t = " " -> "%20"
      [] OTHER -> t

\* urlencoding::encode
encode(s) == [i \in 1..Len(s) |-> EncodeToken(s[i])]

\* format!("http://localhost:{}/proxy?url={}", ACTIVE_PORT.load(), encode(..))
proxied(target) ==
    <<"http://localhost:", PortStr(ACTIVE_PORT), "/proxy?url=">> \o encode(target)

\* Url::join on the urls of the model, the base having a host: a reference
\* with a scheme stands for itself, "//" keeps the scheme, "/" the host, "?"
\* the path, the empty reference the whole url, and any other reference
\* replaces what follows the last "/" of the path (the query is not part of
\* the path)
join(base, relative) ==
    LET whole == ParseUrl(base).path
        q == find(whole, <<"?">>)
        path == IF q = 0 THEN whole ELSE SubSeq(whole, 1, q - 1)
        slashes == { i \in 1..Len(path) : path[i] = "/" }
        dir == SubSeq(path, 1, CHOOSE i \in slashes : \A k \in slashes : k <= i)
        origin == <<base[1], base[2]>>
    IN  IF relative = <<>> THEN origin \o whole
        ELSE IF relative[1] \in {"https://", "http://", "data:"} THEN relative
        ELSE IF relative[1] = "//" THEN <<base[1]>> \o Tail(relative)
        ELSE IF relative[1] = "/" THEN origin \o relative
        ELSE IF relative[1] = "?" THEN origin \o path \o relative
        ELSE origin \o dir \o relative

\* resolve_url; the last branch is the fallback on rsplit_once('/')
resolve_url(base_url, relative) ==
    IF starts_with(relative, <<"http://">>) \/ starts_with(relative, <<"https://">>)
    THEN relative
    ELSE IF ParseUrl(base_url).ok /\ ParseUrl(base_url).hasHost
    THEN join(base_url, relative)
    ELSE LET slashes == { i \in 1..Len(base_url) : base_url[i] = "/" }
             base_dir == IF slashes = {} THEN base_url
                         ELSE SubSeq(base_url, 1,
                                     (CHOOSE i \in slashes : \A k \in slashes : k <= i) - 1)
         IN  base_dir \o <<"/">> \o relative

\* faulty variant of rewrite_uri_attribute: what follows the attribute is lost
rewrite_uri_attribute_DropRest(base_url, line) ==
    LET Rewritten(pattern, quote_char) ==
            LET start == find(line, pattern)
                uri_start == start + Len(pattern)
                rest == SubSeq(line, uri_start, Len(line))
                end == find(rest, <<quote_char>>)
                uri == SubSeq(rest, 1, end - 1)
            IN  IF start = 0 \/ end = 0 THEN <<>>
                ELSE <<SubSeq(line, 1, start - 1) \o <<"URI=", "\"">>
                           \o proxied(resolve_url(base_url, uri)) \o <<"\"">>>>
    IN  IF Rewritten(<<"URI=", "\"">>, "\"") # <<>>
        THEN Rewritten(<<"URI=", "\"">>, "\"")[1]
        ELSE IF Rewritten(<<"URI=", "'">>, "'") # <<>>
        THEN Rewritten(<<"URI=", "'">>, "'")[1]
        ELSE line

\* rewrite_uri_attribute: the patterns URI=" and URI=' are tried in this
\* order; Rewritten is the body of the loop, <<>> when it does not return
rewrite_uri_attribute(base_url, line) ==
    LET Rewritten(pattern, quote_char) ==
            LET start == find(line, pattern)
                uri_start == start + Len(pattern)
                rest == SubSeq(line, uri_start, Len(line))
                end == find(rest, <<quote_char>>)
                uri == SubSeq(rest, 1, end - 1)
            IN  IF start = 0 \/ end = 0 THEN <<>>
                ELSE <<SubSeq(line, 1, start - 1) \o <<"URI=", "\"">>
                           \o proxied(resolve_url(base_url, uri)) \o <<"\"">>
                           \o SubSeq(line, uri_start + end, Len(line))>>
    IN  IF Rewritten(<<"URI=", "\"">>, "\"") # <<>>
        THEN Rewritten(<<"URI=", "\"">>, "\"")[1]
        ELSE IF Rewritten(<<"URI=", "'">>, "'") # <<>>
        THEN Rewritten(<<"URI=", "'">>, "'")[1]
        ELSE line

\* faulty variant of rewrite_line: an absolute reference is left as it is
rewrite_line_KeepAbsolute(u, line) ==
    LET trimmed == trim(line)
    IN  IF trimmed = <<>> THEN line
        ELSE IF starts_with(trimmed, <<"#", "EXT">>) /\ contains(trimmed, <<"URI=">>)
        THEN rewrite_uri_attribute(u, line)
        ELSE IF starts_with(trimmed, <<"#">>) THEN line
        ELSE IF starts_with(trimmed, <<"https://">>) THEN line
        ELSE proxied(resolve_url(u, trimmed))

\* proxy_handler, the closure mapped over the lines of a manifest fetched
\* from u
rewrite_line(u, line) ==
    LET trimmed == trim(line)
    IN  IF trimmed = <<>> THEN line
        ELSE IF starts_with(trimmed, <<"#", "EXT">>) /\ contains(trimmed, <<"URI=">>)
        THEN rewrite_uri_attribute(u, line)
        ELSE IF starts_with(trimmed, <<"#">>) THEN line
        ELSE proxied(resolve_url(u, trimmed))

\* A text is the sequence of its lines and nl, which tells whether the last
\* of them is followed by a line feed: "a\nb\n" is Text(<<a, b>>, TRUE).
Text(ls, nl) == [lines |-> ls, nl |-> nl]

\* String::from_utf8_lossy: bytes that are no UTF-8 become U+FFFD
LossyToken(t) == IF t = "bytes" THEN "U+FFFD" ELSE t

\* String::from_utf8_lossy
from_utf8_lossy(body) ==
    Text([i \in 1..Len(body.lines) |->
              [k \in 1..Len(body.lines[i]) |-> LossyToken(body.lines[i][k])]],
         body.nl)

\* str::lines: the lines without their line feeds; an empty piece after the
\* last line feed is no line
lines(text) ==
    IF text.lines # <<>> /\ ~ text.nl /\ Last(text.lines) = <<>>
    THEN SubSeq(text.lines, 1, Len(text.lines) - 1)
    ELSE text.lines

\* [String]::join("\n"): a line feed between the lines, none after the last
join_lines(ls) == Text(ls, FALSE)

\* proxy_handler, text.lines().map(..).collect().join("\n")
rewrite_manifest(u, body) ==
    LET text == from_utf8_lossy(body)
    IN  join_lines([i \in 1..Len(lines(text)) |-> rewrite_line(u, lines(text)[i])])

\* proxy_handler, the test that makes a response a manifest
is_m3u8(content_type, u) ==
    \/ contains(content_type, <<"mpegurl">>)
    \/ contains(content_type, <<"x-", "mpegurl">>)
    \/ contains(u, <<".m3u8">>)

OctetStream == <<"application/", "octet-stream">>

AppleMpegurl == <<"application/", "vnd.apple.", "mpegurl">>

\* (StatusCode::BAD_GATEWAY, String).into_response()
BadGateway(msg) ==
    [status |-> 502, content_type |-> <<"text/", "plain">>,
     body |-> Text(<<<<msg>>>>, FALSE)]

NoBody == Text(<<>>, FALSE)

NoResponse == [status |-> 0, content_type |-> <<>>, body |-> NoBody]

\* what the upstream does with a fetch: fetch is "ok", "send_err" (send()
\* fails) or "body_err" (bytes() fails); content_type <<>> is a response
\* without the header
Reply(f, st, ct, b) == [fetch |-> f, status |-> st, content_type |-> ct, body |-> b]

NoReply == Reply("none", 0, <<>>, NoBody)

Idle == [pc |-> "idle", url |-> <<>>, up |-> NoReply, content_type |-> <<>>,
         fetches |-> 0]

\* a playlist with lines of every kind the handler tells apart
ManifestA ==
  Text(
    << <<"#", "EXT", "M3U">>,
       <<>>,
       <<"#", "EXT", "-X-KEY:", "METHOD=AES-128,", "URI=", "\"", "key", ".bin", "\"",
         ",IV=0x1">>,
       <<"#", "EXT", "-X-KEY:", "METHOD=NONE">>,
       <<"#", "EXT", "INF:", "4.0,">>,
       <<"seg", ".ts">>,
       <<" ", " ">>,
       <<"https://", "cdn2", "/", "seg", ".ts">>,
       <<"#", " ", "note">> >>, TRUE)

\* a playlist that ends without a line feed
ManifestC ==
    Text(<< <<"#", "EXT", "M3U">>, <<>>, <<"seg", ".ts">> >>, FALSE)

\* a playlist with an empty line at its end
ManifestB ==
  Text(
    << <<"#", "EXT", "-X-MAP:", "URI=", "'", "https://", "cdn2", "/", "init", ".mp4", "'">>,
       <<"#", "EXT", "-X-KEY:", "URI=", "\"", "key", ".bin">>,
       <<"#", "EXT", "-X-KEY:", "URI=", "key", ".bin">>,
       <<"#", "EXT", "-X-MEDIA:", "URI=", "\"", "/", "audio", "/", "index", ".m3u8", "\"">>,
       <<" ", "seg", ".ts", " ">>,
       <<"/", "abs", "/", "seg", ".ts">>,
       <<" ", "#", "EXT", "INF:", "4.0,">>,
       <<"low", "/", "index", ".m3u8", "?", "t">>,
       <<>> >>, TRUE)

\* the bytes of a media segment
SegmentBytes == Text(<< <<"bytes">> >>, FALSE)

IndexUrl == <<"https://", "cdn", "/", "v", "/", "index", ".m3u8">>

PlaylistUrl == <<"https://", "cdn", "/", "v", "/", "playlist">>

SegmentUrl == <<"https://", "cdn", "/", "v", "/", "seg", ".ts">>

\* urls that hold ".m3u8" before their end
TokenUrl == <<"https://", "cdn", "/", "v", "/", "index", ".m3u8", "?", "t">>

NestedUrl == <<"https://", "cdn", "/", "v", ".m3u8", "/", "seg", ".ts">>

\* the requests the relay is sent, each with what the upstream does
ProxyInputs ==
    { <<IndexUrl, Reply("ok", 200, AppleMpegurl, ManifestA)>>,
      <<IndexUrl, Reply("ok", 200, <<>>, ManifestB)>>,
      <<IndexUrl, Reply("ok", 200, AppleMpegurl, NoBody)>>,
      <<IndexUrl, Reply("send_err", 0, <<>>, NoBody)>>,
      <<IndexUrl, Reply("body_err", 200, AppleMpegurl, NoBody)>>,
      <<PlaylistUrl, Reply("ok", 200, <<"application/", "x-", "mpegurl">>, ManifestB)>>,
      <<PlaylistUrl, Reply("ok", 200, <<"audio/", "mpegurl", ";charset=utf-8">>, ManifestA)>>,
      <<PlaylistUrl, Reply("ok", 200, <<"application/", "x-", "MPEGURL">>, ManifestA)>>,
      <<PlaylistUrl, Reply("ok", 200, <<"text/", "plain">>, ManifestA)>>,
      <<PlaylistUrl, Reply("ok", 200, AppleMpegurl, ManifestC)>>,
      <<SegmentUrl, Reply("ok", 200, <<"video/", "mp2t">>, SegmentBytes)>>,
      <<SegmentUrl, Reply("ok", 200, <<>>, SegmentBytes)>>,
      <<SegmentUrl, Reply("ok", 404, <<"text/", "html">>,
                         Text(<< <<"not found">> >>, TRUE))>>,
      <<SegmentUrl, Reply("body_err", 200, <<"video/", "mp2t">>, NoBody)>>,
      <<TokenUrl, Reply("ok", 200, AppleMpegurl, ManifestA)>>,
      <<TokenUrl, Reply("ok", 200, <<"video/", "mp2t">>, SegmentBytes)>>,
      <<NestedUrl, Reply("ok", 200, <<"video/", "mp2t">>, SegmentBytes)>>,
      <<<<"cdn", "/", "v">>, Reply("send_err", 0, <<>>, NoBody)>> }

\* a GET /proxy?url=.. reaches proxy_handler, which calls client.get(url).send()
ProxyRequest ==
    /\ server = "serving"
    /\ handler.pc = "idle"
    /\ \E input \in ProxyInputs :
           handler' = [pc |-> "send", url |-> input[1], up |-> input[2],
                       content_type |-> <<>>, fetches |-> 1]
    /\ response' = NoResponse
    /\ UNCHANGED <<parserVars, exportVars, vod, rerun, resolverVars, ACTIVE_PORT, ppc,
                   port_offset, server, busy, stores, urlPort, rewritePort,
                   listenPort>>

\* faulty variant of ProxySend: a failed request is sent once more
ProxySend_Retry ==
    /\ handler.pc = "send"
    /\ IF handler.up.fetch = "send_err"
       THEN /\ response' = BadGateway("Request failed")
            /\ handler' = [handler EXCEPT !.pc = "idle", !.fetches = @ + 1]
       ELSE /\ handler' = [handler EXCEPT
                   !.pc = "body",
                   !.content_type = IF handler.up.content_type = <<>>
                                    THEN OctetStream
                                    ELSE handler.up.content_type]
            /\ UNCHANGED response
    /\ UNCHANGED <<parserVars, exportVars, vod, rerun, resolverVars, ACTIVE_PORT, ppc,
                   port_offset, server, busy, stores, urlPort, rewritePort,
                   listenPort>>

\* send().await returns: an error makes the 502 response, a response of any
\* status gives the content type, the header's or the default
ProxySend ==
    /\ handler.pc = "send"
    /\ IF handler.up.fetch = "send_err"
       THEN /\ response' = BadGateway("Request failed")
            /\ handler' = [handler EXCEPT !.pc = "idle"]
       ELSE /\ handler' = [handler EXCEPT
                   !.pc = "body",
                   !.content_type = IF handler.up.content_type = <<>>
                                    THEN OctetStream
                                    ELSE handler.up.content_type]
            /\ UNCHANGED response
    /\ UNCHANGED <<parserVars, exportVars, vod, rerun, resolverVars, ACTIVE_PORT, ppc,
                   port_offset, server, busy, stores, urlPort, rewritePort,
                   listenPort>>

\* response.bytes().await returns and the handler makes its response
ProxyBody ==
    /\ handler.pc = "body"
    /\ LET content_type == handler.content_type
           body == handler.up.body
           rewritten == rewrite_manifest(handler.url, body)
       IN  IF handler.up.fetch = "body_err"
           THEN /\ response' = BadGateway("Failed to read body")
                /\ UNCHANGED rewritePort
           ELSE IF is_m3u8(content_type, handler.url)
           THEN /\ response' = [status |-> 200, content_type |-> AppleMpegurl,
                                body |-> rewritten]
                /\ rewritePort' = IF rewritten.lines # body.lines
                                  THEN ACTIVE_PORT
                                  ELSE rewritePort
           ELSE /\ response' = [status |-> 200, content_type |-> content_type,
                                body |-> body]
                /\ UNCHANGED rewritePort
    /\ handler' = [handler EXCEPT !.pc = "idle"]
    /\ UNCHANGED <<parserVars, exportVars, vod, rerun, resolverVars, ACTIVE_PORT, ppc,
                   port_offset, server, busy, stores, urlPort, listenPort>>

----------------------------------------------------------------------------
(* Specification *)

Init ==
    /\ backend \in {"none", "montage", "resolver", "proxy", "parser", "numeric",
                    "config", "clips"}
    /\ IF backend = "clips"
       THEN clipRequests \in ClipsInputs /\ cpc = "begin"
       ELSE clipRequests = <<>> /\ cpc = "off"
    /\ ci = 0
    /\ exported = 0
    /\ skipped = 0
    /\ failed = 0
    /\ errors = <<>>
    /\ events = <<>>
    /\ cret = NotReturned
    /\ CONFIG = NoConfig
    /\ lock = Unlocked
    /\ threads = [t \in Threads |-> Outside]
    /\ ncalls = 0
    /\ detected = <<>>
    /\ used = {}
    /\ IF backend = "numeric" THEN call \in NumericInputs \cup VerifyInputs
                             ELSE call = NoCall
    /\ ret = NotReturned
    /\ parseResult = NotParsed
    /\ IF backend = "parser" THEN parser \in ParserInputs ELSE parser = NoParser
    /\ ACTIVE_PORT = 0
    /\ port_offset = 0
    /\ server = "none"
    /\ stores = 0
    /\ urlPort = NoPort
    /\ rewritePort = NoPort
    /\ listenPort = 0
    /\ handler = Idle
    /\ response = NoResponse
    /\ IF backend = "proxy"
       THEN busy \in BusyInputs /\ ppc = "p_init"
       ELSE busy = {} /\ ppc = "off"
    /\ IF backend = "resolver"
       THEN /\ \E input \in ResolveInputs :
                  url = input[1] /\ upstream = input[2]
            /\ rpc = "chain"
       ELSE /\ url = <<>>
            /\ upstream = NoUpstream
            /\ rpc = "off"
    /\ ctx = NoCtx
    /\ qi = 0
    /\ resolved = Pending
    /\ requests = <<>>
    /\ delegated = <<>>
    /\ run = 1
    /\ first = Pending
    /\ \/ /\ backend = "none"
          /\ \E input \in ExportInputs : vod = input[1] /\ timing = input[2]
          /\ clips = "present"
          /\ pc = "dispatch"
       \/ /\ backend = "montage"
          /\ vod = NoVod
          /\ timing = [start |-> 0, duration |-> 3000]
          /\ clips \in {"empty", "missing", "present"}
          /\ pc = "start"
       \/ /\ backend \in {"resolver", "proxy", "parser", "numeric", "config", "clips"}
          /\ vod = NoVod
          /\ timing = [start |-> 0, duration |-> 3000]
          /\ clips = "present"
          /\ pc = "off"
    /\ rerun = "none"
    /\ attempt = 1
    /\ stage = "none"
    /\ last_error = NoError
    /\ result = Pending
    /\ proc = NoProc
    /\ pipe = <<>>
    /\ pipeOpen = FALSE
    /\ nwritten = 0
    /\ timer = TimerOff
    /\ file \in {NoFile, PreExisting}
    /\ hist = <<>>
    /\ probes = 0
    /\ sink = <<>>

Next ==
    \/ TryBind
    \/ OtherProcessBinds
    \/ StartProxyServer
    \/ GetProxyUrl
    \/ ProxyRequest
    \/ ProxySend
    \/ ProxyBody
    \/ FfmpegParse
    \/ YtDlpParse
    \/ ProcBlock
    \/ FormatTimeCall
    \/ BuildCommand
    \/ TotalDuration
    \/ VerifyOutputCall
    \/ \E t \in Threads : ConfigCall(t)
    \/ \E t \in Threads : GetConfigRead(t)
    \/ \E t \in Threads : GetConfigClone(t)
    \/ \E t \in Threads : ConfigWrite(t)
    \/ \E t \in Threads : InitConfig(t)
    \/ \E t \in Threads : GetConfigReread(t)
    \/ \E t \in Threads : SetOutputDir(t)
    \/ ClipsBegin
    \/ ClipNext
    \/ ClipResolve
    \/ ClipProgress
    \/ ClipExport
    \/ ClipsFinish
    \/ ChainResolve
    \/ MetaResponse
    \/ ProbeResponse
    \/ ResolveAgain
    \/ Dispatch
    \/ ExistsCheck
    \/ Validate
    \/ Spawn
    \/ SpawnFail
    \/ ProcWriteLine
    \/ ProcWriteFile
    \/ ProcClosePipe
    \/ ProcExit
    \/ Tick
    \/ ReadLine
    \/ ReadEOF
    \/ WaitExit
    \/ WaitError
    \/ Timeout
    \/ VerifyOutput
    \/ VerifyProbeFail
    \/ MontageStart
    \/ MontageReadEOF
    \/ MontageWaitExit
    \/ MontageTimeout

Spec == Init /\ [][Next]_vars

\* the steps of the supervising task; the tokio runtime polls it whenever one
\* of its futures is ready
Supervisor ==
    \/ Dispatch
    \/ Validate
    \/ Spawn
    \/ SpawnFail
    \/ ReadLine
    \/ ReadEOF
    \/ WaitExit
    \/ WaitError
    \/ Timeout
    \/ VerifyOutput
    \/ VerifyProbeFail
    \/ MontageStart
    \/ MontageReadEOF
    \/ MontageWaitExit
    \/ MontageTimeout

\* The supervisor keeps running and time keeps passing; nothing is assumed
\* of the child process, which may write nothing more and never exit.
FairSpec == Spec /\ WF_vars(Supervisor) /\ WF_vars(Tick)

----------------------------------------------------------------------------
(* Properties *)

Returned == pc = "done"

Failed(h) == h.outcome \notin {"running", "ok"} \/ h.verify = "rejected"

\* C1: FfmpegExporter::export_with_retry returns Ok only when the last
\* command it ran exited with status zero within the timeout and
\* verify_output accepted the file that is then at the destination; a
\* command whose output was rejected is never the one a returned Ok rests on.
C1_OkOnlyWhenVerified ==
    (backend = "ffmpeg" /\ Returned /\ result = Ok) =>
        /\ hist # <<>>
        /\ Last(hist).outcome = "ok"
        /\ Last(hist).verify = "accepted"
        /\ proc.state = "reaped" /\ proc.status = 0
        /\ file.by = Len(hist)
        /\ file.probe >= 0
        /\ 100 * Abs(file.probe - timing.duration)
              <= Max(15 * timing.duration, 15000)
        /\ \A i \in 1..Len(hist) : hist[i].verify = "rejected" => i < Len(hist)

\* an Ok returned by the re-encode of attempt 2, after a rejected copy
C1_Witness ==
    /\ backend = "ffmpeg" /\ Returned /\ result = Ok
    /\ Len(hist) = 3
    /\ hist[1].verify = "rejected"
    /\ file.probe = timing.duration + Tolerance(timing.duration)

C3_InvalidTimingNoEffect ==
    /\ [] ((backend \in {"ffmpeg", "ytdlp"} /\ IsErr(validate(timing))) =>
              /\ hist = <<>> /\ probes = 0 /\ proc.state = "none"
              /\ sink = <<>>
              /\ pc \in {"start", "done"}
              /\ Returned => result = validate(timing))
    /\ [][(backend \in {"ffmpeg", "ytdlp"} /\ IsErr(validate(timing))) =>
              file' = file]_vars

\* an invalid duration was turned down while a file was at the destination
C3_Witness ==
    /\ backend = "ytdlp" /\ Returned
    /\ result.kind = "InvalidDuration"
    /\ file = PreExisting

\* C4: ClipTiming::validate returns Ok exactly when start >= 0 and
\* 0.1 s <= duration <= 3600 s; otherwise InvalidStartTime carrying the start
\* when start < 0 (checked first), else InvalidDuration carrying the duration.
C4_ValidateBounds ==
    (backend \in {"ffmpeg", "ytdlp"} /\ pc # "start") =>
        IF timing.start >= 0 /\ timing.duration >= 10 /\ timing.duration <= 360000
        THEN result.kind \notin {"InvalidStartTime", "InvalidDuration"}
             /\ (Returned \/ hist # <<>> \/ pc = "spawn")
        ELSE /\ Returned
             /\ result = IF timing.start < 0
                         THEN [kind |-> "InvalidStartTime", value |-> timing.start]
                         ELSE [kind |-> "InvalidDuration", value |-> timing.duration]

\* both the start and the duration out of bounds: the start is reported
C4_Witness ==
    /\ backend = "ffmpeg" /\ Returned
    /\ timing.start < 0 /\ timing.duration > 360000
    /\ result = [kind |-> "InvalidStartTime", value |-> -1]

\* C5: a single-clip command attempt that ends while its process has not
\* exited ends only once the 300-second timeout has elapsed, with the process
\* killed and reaped in the same step and ExportError::Timeout as the
\* attempt's result; an attempt is taken as successful only on a zero exit
\* status the process itself reported.
C5_TimeoutKills ==
    [][ (pc \in {"select", "wait"} /\ pc' \notin {"select", "wait"}) =>
          /\ proc.state = "running" =>
                /\ timer >= 300
                /\ proc'.state = "reaped" /\ proc'.status = Killed
                /\ last_error' = [kind |-> "Timeout", msg |-> "timed out",
                                  at |-> Len(hist), phase |-> "run"]
                /\ hist'[Len(hist)].outcome = "timeout"
                /\ pc' # "verify" /\ result' # Ok
          /\ (pc' = "verify" \/ result' = Ok) =>
                (proc.state = "exited" /\ proc.status = 0)
      ]_vars

\* the keyframe command of yt-dlp timed out and was killed
C5_Witness ==
    /\ backend = "ytdlp"
    /\ pc = "spawn"
    /\ Len(hist) = 1 /\ hist[1].outcome = "timeout"
    /\ proc.state = "reaped" /\ proc.status = Killed
    /\ last_error.kind = "Timeout"

\* C7: in one FfmpegExporter::export_with_retry call the stream-copy command
\* is run at most once and only as the first command of attempt 1, the
\* re-encode command at most twice (once per attempt), at most 3 commands in
\* the order copy, encode, encode, and none after a verified success.
C7_FfmpegLadder ==
    backend = "ffmpeg" =>
        /\ Len(hist) <= 3
        /\ \A i \in 1..Len(hist) :
              /\ hist[i].cmd = (IF i = 1 THEN "copy" ELSE "encode")
              /\ hist[i].attempt = (IF i = 1 THEN 1 ELSE i - 1)
              /\ hist[i].verify = "accepted" => (i = Len(hist) /\ Returned)
              /\ i < Len(hist) => Failed(hist[i])

\* all three commands were spawned, the last one is running
C7_Witness ==
    /\ backend = "ffmpeg"
    /\ Len(hist) = 3
    /\ \A i \in 1..2 : hist[i].outcome \notin {"spawnfail", "running"}
    /\ hist[3].outcome = "running"
    /\ hist[1].verify = "rejected"

\* C8: in one YtDlpExporter::export_with_retry call the keyframe command is
\* run at most once and only as the first command of attempt 1; after its
\* failure the plain command is run in the same attempt and once more in
\* attempt 2: at most 3 commands in the order keyframe, plain, plain; the
\* call returns Ok right after the first command that exits successfully.
C8_YtDlpLadder ==
    backend = "ytdlp" =>
        /\ Len(hist) <= 3
        /\ \A i \in 1..Len(hist) :
              /\ hist[i].cmd = (IF i = 1 THEN "keyframe" ELSE "plain")
              /\ hist[i].attempt = (IF i = 1 THEN 1 ELSE i - 1)
              /\ hist[i].outcome = "ok" => (i = Len(hist) /\ Returned /\ result = Ok)
              /\ i < Len(hist) => Failed(hist[i])
              /\ hist[i].verify = "none"
        /\ probes = 0

\* the plain command of attempt 2 succeeded after two failures
C8_Witness ==
    /\ backend = "ytdlp" /\ Returned /\ result = Ok
    /\ Len(hist) = 3
    /\ hist[1].outcome = "exit" /\ hist[2].outcome = "timeout"
    /\ hist[3].outcome = "ok"

\* the error a failed command or verification of hist[i] produces
StepErrorKinds(h) ==
    IF h.outcome = "timeout" THEN {"Timeout"}
    ELSE IF h.outcome = "ok" THEN {"DurationMismatch", "CorruptedOutput", "Ffmpeg"}
    ELSE {ToolKind}

\* C9: when export_with_retry of either backend fails on valid timing, the
\* command of the second outer attempt has run and failed (or failed
\* verification), and the returned error is the error of the chronologically
\* last failed step of the call, never an earlier step's and never the
\* generic "Export failed".
C9_LastErrorReturned ==
    (/\ backend \in {"ffmpeg", "ytdlp"}
     /\ ~ IsErr(validate(timing))
     /\ Returned /\ IsErr(result)) =>
        /\ Len(hist) = 3
        /\ Last(hist).attempt = 2
        /\ Failed(Last(hist))
        /\ result.at = Len(hist)
        /\ result.phase = (IF Last(hist).outcome = "ok" THEN "verify" ELSE "run")
        /\ result.kind \in StepErrorKinds(Last(hist))
        /\ result.msg # "Export failed"

\* the call fails with the error of the last re-encode, the earlier steps
\* having failed differently
C9_Witness ==
    /\ backend = "ffmpeg" /\ Returned
    /\ result.kind = "Timeout" /\ result.at = 3
    /\ hist[1].verify = "rejected"
    /\ hist[2].outcome = "exit"

C6_MontageReturns ==
    (backend = "montage") ~> Returned

\* the same statement of the single-clip exporters
SingleClipReturns ==
    (backend \in {"ffmpeg", "ytdlp"}) ~> Returned

\* C11: a partially-written file is never mistaken for a completed export:
\* when a later export_clips run counts the clip as Skipped because of a file
\* that a command of the call left unfinished at the output path, the call
\* had returned Ok (so no such file survives a failed call).
C11_SkippedOnlyAfterOk ==
    (rerun = "Skipped" /\ file.by >= 1 /\ file.probe = Partial) => result = Ok

\* the tokens of a url in front of its query string
UrlPath(u) ==
    IF \E i \in 1..Len(u) : u[i] = "?"
    THEN SubSeq(u, 1, (CHOOSE i \in 1..Len(u) :
                         u[i] = "?" /\ \A j \in 1..(i - 1) : u[j] # "?") - 1)
    ELSE u

\* the url's path ends in a direct-video extension, or in .mp4 with a query
\* string right behind it
PathIsDirectVideo(u) ==
    LET path == to_lowercase(UrlPath(u))
    IN  IF path = u
        THEN \/ ends_with(path, <<".mp4">>)
             \/ ends_with(path, <<".webm">>)
             \/ ends_with(path, <<".mkv">>)
        ELSE ends_with(path, <<".mp4">>)

\* C12: SmartExporter::export_with_progress uses the ffmpeg backend exactly
\* when the descriptor is flagged is_hls or the path of its url ends in
\* .mp4, .webm, .mkv, or in .mp4 immediately followed by a query string; it
\* uses the yt-dlp backend for every other descriptor.
C12_DispatchRule ==
    backend \in {"ffmpeg", "ytdlp"} =>
        (backend = "ffmpeg" <=> (vod.is_hls \/ PathIsDirectVideo(vod.url)))

\* the commands a backend builds
BackendCmds(b) == IF b = "ffmpeg" THEN {"copy", "encode"} ELSE {"keyframe", "plain"}

\* C13: the backend is chosen once per SmartExporter::export_with_progress
\* call and not changed afterwards: every command spawned during the call is
\* one of the chosen backend, and the error a failed call returns is the
\* error of a command of that backend.
C13_BackendChosenOnce ==
    /\ [] (backend \in {"ffmpeg", "ytdlp"} =>
            /\ \A i \in 1..Len(hist) : hist[i].cmd \in BackendCmds(backend)
            /\ (Returned /\ IsErr(result) /\ ~ IsErr(validate(timing))) =>
                  /\ result.at \in 1..Len(hist)
                  /\ hist[result.at].cmd \in BackendCmds(backend))
    /\ [][(backend \in {"ffmpeg", "ytdlp"}) => (backend' = backend)]_vars

\* a call of the yt-dlp backend that failed after all three of its commands
C13_Witness ==
    /\ backend = "ytdlp" /\ ~ vod.is_hls
    /\ Returned /\ IsErr(result)
    /\ Len(hist) = 3
    /\ \A i \in 1..3 : Failed(hist[i])

\* the resolvers of the chain that claim a url, in the order of the chain
FirstClaimer(u) ==
    LET claimers == SelectSeq(<<"twitch", "youtube">>,
                              LAMBDA r : IF r = "twitch" THEN twitch_can_handle(u)
                                         ELSE youtube_can_handle(u))
    IN  IF claimers = <<>> THEN <<>> ELSE <<Head(claimers)>>

\* C14: VodResolverChain::resolve delegates to exactly one resolver, the first
\* of Twitch, YouTube whose can_handle accepts the url, and returns that
\* resolver's result, its error included: after the first claimer has been
\* called no other resolver is called and the direct-url fallback is not
\* taken.
C14_FirstClaimerOnly ==
    rpc \notin {"off", "chain"} =>
        /\ delegated = FirstClaimer(url)
        /\ delegated # <<"twitch">> => requests = <<>>
        /\ (rpc = "r_done" /\ delegated = <<"twitch">>) =>
              \/ resolved.kind \in {"InvalidUrl", "VodNotFound", "ApiError",
                                    "ParseError", "NoValidQuality"}
              \/ /\ resolved.kind = "Ok"
                 /\ resolved.vod = [url |-> Last(requests).url, is_hls |-> TRUE]
        /\ (rpc = "r_done" /\ delegated = <<"youtube">>) =>
              resolved = OkVod(url, FALSE)

\* a url both resolvers claim: Twitch's error is returned
C14_Witness ==
    /\ rpc = "r_done"
    /\ twitch_can_handle(url) /\ youtube_can_handle(url)
    /\ delegated = <<"twitch">>
    /\ resolved = PlatformErr("InvalidUrl")

\* C15: when no resolver claims the url, VodResolverChain::resolve returns Ok
\* with the url unchanged, flagged is_hls only if the url ends in .m3u8; a
\* url that has .m3u8 elsewhere is not flagged.
C15_FallbackEndsWith ==
    (rpc = "r_done" /\ delegated = <<>>) =>
        resolved = OkVod(url, ends_with(url, <<".m3u8">>))

\* the HEAD requests among the requests of the call
Probes == SelectSeq(requests, LAMBDA r : r.kind = "HEAD")

\* C16: TwitchResolver::resolve probes the qualities in the order chunked,
\* 1080p60, 720p60, 480p30, 360p30, returns the playlist of the first one
\* whose HEAD probe succeeds, flagged is_hls, and probes nothing after it; it
\* fails with NoValidQuality exactly when all five probes fail; a probe that
\* ends in a transport error is a failed probe and not an error of resolve.
C16_ProbeOrder ==
    LET order == <<"chunked", "1080p60", "720p60", "480p30", "360p30">>
    IN  /\ Len(Probes) <= 5
        /\ \A k \in 1..Len(Probes) :
              /\ Probes[k].quality = k
              /\ contains(Probes[k].url, <<"/", order[k], "/">>)
              /\ k < Len(Probes) => upstream.up[k] # "ok"
        /\ (rpc = "r_done" /\ Probes # <<>>) =>
              /\ resolved.kind \in {"Ok", "NoValidQuality"}
              /\ resolved.kind = "Ok" =>
                    /\ upstream.up[Len(Probes)] = "ok"
                    /\ resolved.vod = [url |-> Last(Probes).url, is_hls |-> TRUE]
              /\ resolved.kind = "NoValidQuality" <=>
                    \A q \in 1..5 : upstream.up[q] # "ok"
              /\ resolved.kind = "NoValidQuality" => Len(Probes) = 5
        /\ (rpc = "r_done" /\ resolved.kind = "NoValidQuality") => Probes # <<>>

\* the third quality is returned after a transport error on the second
C16_Witness ==
    /\ rpc = "r_done"
    /\ resolved.kind = "Ok"
    /\ Len(Probes) = 3
    /\ upstream.up[1] = "status" /\ upstream.up[2] = "transport"
    /\ upstream.up[4] = "ok"

\* the digits that follow twitch.tv/video/ or twitch.tv/videos/ in a url
DigitsAfterVideo(u) ==
    { d \in DigitTokens :
        \/ contains(u, <<"twitch.tv/video", "/", d>>)
        \/ contains(u, <<"twitch.tv/video", "s", "/", d>>) }

\* C17: extract_vod_id yields digits that follow twitch.tv/video/ or
\* twitch.tv/videos/ in the url, and a url with such digits is claimed by
\* can_handle and its id is what the metadata query asks for; a url without
\* twitch.tv/video is not claimed and no request is made for it; for a
\* claimed url without such digits resolve returns InvalidUrl and has issued
\* no request.
C17_VodIdAndClaim ==
    rpc \notin {"off", "chain"} =>
        /\ DigitsAfterVideo(url) # {} =>
              /\ delegated = <<"twitch">>
              /\ requests # <<>>
              /\ requests[1].kind = "gql"
              /\ requests[1].id \in DigitsAfterVideo(url)
        /\ ~ contains(url, <<"twitch.tv/video">>) =>
              /\ delegated # <<"twitch">>
              /\ requests = <<>>
        /\ (contains(url, <<"twitch.tv/video">>) /\ DigitsAfterVideo(url) = {}) =>
              /\ rpc = "r_done"
              /\ resolved = PlatformErr("InvalidUrl")
              /\ requests = <<>>

\* a claimed url whose id is not numeric
C17_Witness ==
    /\ rpc = "r_done"
    /\ url = <<"https://", "twitch.tv/video", "s", "/", "abc">>
    /\ resolved = PlatformErr("InvalidUrl")
    /\ requests = <<>>

\* C18: parse_seek_url returns the host of the seek previews url and the
\* path segment right in front of the first path component that contains
\* "storyboards"; it does not panic and does not return an empty segment:
\* resolve goes on to probe only with a non-empty segment of the url.
C18_SeekSegment ==
    /\ resolved.kind # "Panic"
    /\ rpc = "t_probe" =>
          LET parsed == ParseUrl(upstream.meta.seek)
              comps == split(parsed.path)
          IN  /\ parsed.ok /\ parsed.hasHost
              /\ ctx.domain = parsed.host
              /\ ctx.vod_special_id # <<>>
              /\ \E k \in 2..Len(comps) :
                    /\ contains(comps[k], <<"storyboards">>)
                    /\ \A j \in 1..(k - 1) : ~ contains(comps[j], <<"storyboards">>)
                    /\ comps[k - 1] = ctx.vod_special_id

C20_PortSingleAssignment ==
    /\ [] (ACTIVE_PORT = 0 \/ ACTIVE_PORT \in 9878..9887)
    /\ [] (stores <= 1)
    /\ [][(ACTIVE_PORT # 0) => (ACTIVE_PORT' = ACTIVE_PORT)]_vars

\* the last port of the range was stored, the relay serves on it and both
\* readers have read it
C20_Witness ==
    /\ ACTIVE_PORT = 9887 /\ stores = 1
    /\ server = "serving"
    /\ urlPort = 9887 /\ rewritePort = 9887

\* C21: the relay listens, if at all, only on the port stored in ACTIVE_PORT,
\* which is the lowest port of 9878..9887 the start-up probe could bind (every
\* lower candidate was held by another process) and was stored before the relay
\* thread started; when none of the ten could be bound ACTIVE_PORT stays 0, the
\* relay thread is never started, and get_proxy_url still returns a url, made
\* with the port 0
C21_ListensOnFirstFree ==
    /\ listenPort # 0 =>
          /\ server = "serving"
          /\ listenPort = ACTIVE_PORT
          /\ listenPort \in PortRange
          /\ \A p \in PortRange : p < listenPort => p \in busy
    /\ server = "serving" => listenPort # 0
    /\ server # "none" => stores = 1 /\ ACTIVE_PORT # 0
    /\ (ppc = "p_app" /\ ACTIVE_PORT = 0) =>
          /\ PortRange \subseteq busy
          /\ server = "none"
          /\ listenPort = 0
          /\ urlPort \in {NoPort, 0}
    /\ urlPort # NoPort => urlPort = ACTIVE_PORT

\* the relay listens on the third candidate because two are held
C21_Witness ==
    /\ listenPort = BASE_PROXY_PORT + 2
    /\ busy = {BASE_PROXY_PORT, BASE_PROXY_PORT + 1}

\* no candidate could be bound and get_proxy_url has been called
C21_WitnessNone ==
    /\ ppc = "p_app" /\ ACTIVE_PORT = 0 /\ urlPort = 0 /\ server = "none"

\* the handler has answered its request with a rewritten manifest
Rewrote ==
    /\ handler.pc = "idle"
    /\ response.status = 200
    /\ response.content_type = AppleMpegurl
    /\ response.body # handler.up.body

\* the handler has answered a request whose upstream body arrived
Answered == handler.pc = "idle" /\ response.status = 200

\* the manifest test as the specification words it: the content type names
\* mpegurl, or the url ends with the manifest extension
SuffixIsManifest ==
    \/ contains(handler.content_type, <<"mpegurl">>)
    \/ ends_with(handler.url, <<".m3u8">>)

\* a line that is blank, or a comment or tag without the text URI=
Plain(line) ==
    \/ trim(line) = <<>>
    \/ starts_with(trim(line), <<"#">>) /\ ~ contains(line, <<"URI=">>)

\* the /proxy?url= reference to v, an absolute url or one relative to the
\* url of the request, on the port the relay listens on
Reference(v) ==
    <<"http://localhost:", PortStr(listenPort), "/proxy?url=">>
        \o encode(IF v # <<>> /\ v[1] \in {"http://", "https://"} THEN v
                  ELSE join(handler.url, v))

\* positions <<s, e>> of a tag line's quoted URI attribute: URI= stands at s,
\* the closing quote at e
UriAttributes(line) ==
    { p \in (1..Len(line)) \X (1..Len(line)) :
        /\ starts_with(trim(line), <<"#", "EXT">>)
        /\ line[p[1]] = "URI="
        /\ p[1] + 1 < p[2]
        /\ line[p[1] + 1] \in {"\"", "'"}
        /\ line[p[2]] = line[p[1] + 1]
        /\ \A k \in (p[1] + 2)..(p[2] - 1) : line[k] # line[p[1] + 1] }

\* C22: when the relay rewrites a manifest, the rewritten text has as many
\* lines as the manifest, and every blank line and every comment or tag line
\* without a URI attribute stands unchanged at its place.
C22_PlainLinesKept ==
    Rewrote =>
        LET old == lines(from_utf8_lossy(handler.up.body))
            new == lines(response.body)
        IN  /\ Len(new) = Len(old)
            /\ \A i \in 1..Len(old) : Plain(old[i]) => new[i] = old[i]

\* C23: in a rewritten manifest every tag line with a URI="..." or URI='...'
\* attribute is the same line with the attribute's value replaced by the
\* /proxy?url= reference (in double quotes) to the value, resolved against
\* the url of the request when it is relative; the text before and after the
\* attribute is kept.
C23_UriAttributeRewritten ==
    Rewrote =>
        LET old == lines(from_utf8_lossy(handler.up.body))
            new == response.body.lines
        IN  \A i \in 1..Len(old) : \A p \in UriAttributes(old[i]) :
                new[i] = SubSeq(old[i], 1, p[1] - 1)
                           \o <<"URI=", "\"">>
                           \o Reference(SubSeq(old[i], p[1] + 2, p[2] - 1))
                           \o <<"\"">>
                           \o SubSeq(old[i], p[2] + 1, Len(old[i]))

\* a manifest with a double-quoted relative attribute followed by more text
\* has been rewritten
C23_Witness ==
    /\ Rewrote
    /\ handler.up.body = ManifestA
    /\ handler.url = TokenUrl
    /\ \E i \in 1..Len(response.body.lines) :
           /\ UriAttributes(ManifestA.lines[i]) # {}
           /\ response.body.lines[i] # ManifestA.lines[i]

\* C24: in a rewritten manifest every line that is neither blank nor a
\* comment or tag (its first character other than white space is not #) is
\* replaced by nothing but a /proxy?url= reference to the url it names, so
\* that no such line names the upstream host directly.
C24_ReferenceLinesProxied ==
    Rewrote =>
        LET old == lines(from_utf8_lossy(handler.up.body))
            new == response.body.lines
        IN  \A i \in 1..Len(old) :
                (trim(old[i]) # <<>> /\ ~ starts_with(trim(old[i]), <<"#">>)) =>
                    /\ new[i] = Reference(trim(old[i]))
                    /\ new[i][1] = "http://localhost:"
                    /\ \A k \in 1..Len(new[i]) :
                           new[i][k] \notin {"https://", "http://", "//", "/"}

\* a manifest with relative, absolute and rooted reference lines has been
\* rewritten
C24_Witness ==
    /\ Rewrote
    /\ handler.up.body = ManifestB
    /\ handler.url = PlaylistUrl
    /\ listenPort = BASE_PROXY_PORT + 1

\* C25: the relay rewrites a body exactly when the content type contains
\* mpegurl or the url of the request ends with .m3u8; every other response,
\* also one to a url that holds .m3u8 before its end, has the upstream's body
\* and content type (application/octet-stream when the upstream names none).
C25_RewriteOnlyManifests ==
    Answered =>
        IF SuffixIsManifest
        THEN /\ response.body = rewrite_manifest(handler.url, handler.up.body)
             /\ response.content_type = AppleMpegurl
        ELSE /\ response.body = handler.up.body
             /\ response.content_type = handler.content_type

\* C26: a request makes one upstream fetch and no more; it is answered with
\* 200 and a body or with 502 and a plain-text error, with 502 exactly when the
\* fetch failed, in the request or in reading the body.
C26_OneFetchOneAnswer ==
    /\ handler.fetches <= 1
    /\ handler.pc # "idle" => handler.fetches = 1 /\ response = NoResponse
    /\ (handler.pc = "idle" /\ handler.fetches = 1) =>
          /\ response.status \in {200, 502}
          /\ response.status = 502 <=> handler.up.fetch \in {"send_err", "body_err"}
          /\ response.status = 502 =>
                /\ response.content_type = <<"text/", "plain">>
                /\ response.body.lines \in {<<<<"Request failed">>>>,
                                           <<<<"Failed to read body">>>>}
          /\ response.status = 200 => handler.up.fetch = "ok"

\* a body that could not be read has been answered with 502
C26_Witness ==
    /\ handler.pc = "idle" /\ handler.up.fetch = "body_err"
    /\ response.status = 502

\* positions of the time=HH:MM:SS.CC tokens of a line
TimeTokens(line) == { i \in 1..Len(line) : TimeAt(line, i) }

\* centiseconds named by the time token at position i
Elapsed(line, i) ==
    360000 * Num2(line[i + 1]) + 6000 * Num2(line[i + 3])
        + 100 * Num2(line[i + 5]) + Num2(First2(line[i + 7]))

\* the numbers of the speed=<number>x tokens of a line
SpeedNumbers(line) ==
    { n \in 2..Len(line) :
        /\ IsNumber(line[n]) /\ n < Len(line) /\ line[n + 1] = "x"
        /\ \E i \in 1..(n - 1) :
               line[i] = "speed=" /\ \A k \in (i + 1)..(n - 1) : line[k] = " " }

\* C27: FfmpegProgressParser::parse_line returns an event exactly for the
\* lines that hold a time=HH:MM:SS.CC token; the percent is
\* min(100, elapsed * 100 / expected duration) of the first such token, 0 when
\* the expected duration is not positive, and lies in 0..100; the speed is
\* "<number>x" of the line's speed=<number>x token and None when it has none.
C27_FfmpegParseLine ==
    (parser.kind = "ffmpeg" /\ parseResult # NotParsed) =>
        LET line == parser.line
            times == TimeTokens(line)
            speeds == SpeedNumbers(line)
        IN  /\ parseResult.some <=> times # {}
            /\ ~ parseResult.some => parseResult = NoEvent
            /\ parseResult.some =>
                  /\ parseResult.percent \in 0..100
                  /\ parseResult.percent =
                        IF parser.duration <= 0 THEN 0
                        ELSE Min(100, (Elapsed(line, First(times)) * 100)
                                          \div parser.duration)
                  /\ parseResult.speed =
                        IF speeds = {} THEN <<>>
                        ELSE <<line[First(speeds)], "x">>

\* the first line of the unit test, parsed for a clip of 10 s
C27_Witness ==
    /\ parser.kind = "ffmpeg" /\ parser.duration = 1000
    /\ parseResult = Event(50, <<"2.00", "x">>)

\* positions <<i, n>> of the "[download] <percent>%" tokens of a line:
\* [download] at i, the number at n
DownloadTokens(line) ==
    { p \in (1..Len(line)) \X (1..Len(line)) :
        /\ line[p[1]] = "[download]"
        /\ p[1] + 1 < p[2]
        /\ \A k \in (p[1] + 1)..(p[2] - 1) : line[k] = " "
        /\ IsNumber(line[p[2]])
        /\ p[2] < Len(line) /\ line[p[2] + 1] = "%" }

\* positions <<i, n, u>> of the "at <rate>/s" tokens of a line: at at i, the
\* number at n, the unit at u
RateTokens(line) ==
    { p \in (1..Len(line)) \X (1..Len(line)) \X (1..Len(line)) :
        /\ line[p[1]] = "at"
        /\ p[1] + 1 < p[2] /\ p[2] < p[3]
        /\ \A k \in (p[1] + 1)..(p[2] - 1) : line[k] = " "
        /\ IsNumber(line[p[2]])
        /\ \A k \in (p[2] + 1)..(p[3] - 1) : line[k] = " "
        /\ line[p[3]] \in {"B/s", "KiB/s", "MiB/s"} }

\* the event YtDlpProgressParser::parse_line is to return apart from the speed
YtDlpPercentRight ==
    LET line == parser.line
        tokens == DownloadTokens(line)
    IN  /\ parseResult.some <=> tokens # {}
        /\ ~ parseResult.some => parseResult = NoEvent
        /\ parseResult.some =>
              /\ parseResult.percent \in 0..100
              /\ \E p \in tokens :
                     /\ \A q \in tokens : p[1] <= q[1]
                     /\ parseResult.percent = Min(100, Percent(line[p[2]]))

\* C28 as stated: YtDlpProgressParser::parse_line returns an event exactly
\* for the lines that hold a "[download] <percent>%" token, with the percent
\* capped at 100, and the speed label is the "at <rate>/s" token of the
\* line, None when it has none.
C28_SpeedIsAtToken ==
    (parser.kind = "ytdlp" /\ parseResult.some) =>
        LET line == parser.line
            rates == RateTokens(line)
        IN  /\ YtDlpPercentRight
            /\ IF rates = {} THEN parseResult.speed = <<>>
               ELSE \E p \in rates : parseResult.speed = SubSeq(line, p[1], p[3])

\* C28, amended: YtDlpProgressParser::parse_line returns an event exactly for
\* the lines that hold a "[download] <percent>%" token; the percent is the
\* number capped at 100 and lies in 0..100; the speed label is the
\* "<rate>/s" part of the line's "at <rate>/s" token, without the word at,
\* and None when the line has no such token.
C28_YtDlpParseLine ==
    (parser.kind = "ytdlp" /\ parseResult # NotParsed) =>
        LET line == parser.line
            rates == RateTokens(line)
        IN  /\ YtDlpPercentRight
            /\ parseResult.some =>
                  IF rates = {} THEN parseResult.speed = <<>>
                  ELSE \E p \in rates :
                           /\ \A q \in rates : p[1] <= q[1]
                           /\ parseResult.speed = SubSeq(line, p[2], p[3])

\* the first line of the unit test has been parsed
C28_Witness ==
    /\ parser.kind = "ytdlp"
    /\ parseResult = Event(45, <<"5.20", "MiB/s">>)

\* C29: within one export call the percents given to the sink never decrease
\* from one invocation to the next; in particular, when a command of the call
\* has exited with a failure status, the first percent the next command
\* delivers is not below the last percent delivered before it.
C29_NoDecreaseBetweenCommands ==
    (/\ proc.state \in {"running", "exited"}
     /\ Len(hist) >= 2 /\ hist[Len(hist) - 1].outcome = "exit"
     /\ proc.sunk > 0 /\ Len(sink) > proc.sunk)
        => sink[proc.sunk] <= sink[proc.sunk + 1]

\* the events that parse_line yields for a sequence of lines, in their order
Events(ls) ==
    SelectSeq([i \in 1..Len(ls) |-> parse_line(ls[i])], LAMBDA p : p # NoToken)

\* the events the sink has been given since the current command was spawned
Delivered == SubSeq(sink, proc.sunk + 1, Len(sink))

\* C30: while a command runs, the events given to the sink since it was
\* spawned are the events of a prefix of the lines its process has written,
\* in the order written and each once (the lines read so far: all written
\* but those still in the pipe); the sink is given an event only by the
\* reader of a command that has not returned.
C30_EventsFollowLines ==
    /\ [] (proc.state \in {"running", "exited"} =>
             /\ Len(pipe) <= Len(proc.lines)
             /\ Delivered = Events(SubSeq(proc.lines, 1, Len(proc.lines) - Len(pipe))))
    /\ [][(sink' # sink) =>
             (/\ pc \in {"select", "m_read"}
              /\ proc.state \in {"running", "exited"}
              /\ Len(sink') = Len(sink) + 1)]_vars

\* a command has delivered the event of the first of two lines that hold a
\* token; the second is still in the pipe
C30_Witness ==
    /\ proc.state = "running"
    /\ Len(proc.lines) = 2 /\ Len(pipe) = 1
    /\ parse_line(proc.lines[1]) # NoToken
    /\ proc.lines[1] # proc.lines[2]
    /\ parse_line(proc.lines[2]) # NoToken
    /\ Len(Delivered) = 1

\* the value of a run of decimal digits
RECURSIVE DecimalValue(_)
DecimalValue(s) ==
    IF s = <<>> THEN 0
    ELSE 10 * DecimalValue(SubSeq(s, 1, Len(s) - 1))
             + ((CHOOSE d \in 1..10 : Digit[d] = s[Len(s)]) - 1)

IsDigitRun(s) == s # <<>> /\ \A i \in 1..Len(s) : \E d \in 1..10 : Digit[d] = s[i]

\* the fields of a string of the shape H..H:MM:SS, <<>> for any other string
ClockFields(s) ==
    LET colons == { i \in 1..Len(s) : s[i] = ":" }
    IN  IF Cardinality(colons) # 2 THEN <<>>
        ELSE LET a == CHOOSE i \in colons : \A j \in colons : i <= j
                 b == CHOOSE i \in colons : \A j \in colons : j <= i
                 f == <<SubSeq(s, 1, a - 1), SubSeq(s, a + 1, b - 1),
                        SubSeq(s, b + 1, Len(s))>>
             IN  IF /\ \A k \in 1..3 : IsDigitRun(f[k])
                    /\ Len(f[1]) >= 2 /\ Len(f[2]) = 2 /\ Len(f[3]) = 2
                    /\ (Len(f[1]) > 2 => f[1][1] # "0")
                 THEN f ELSE <<>>

\* the second of the day a string HH:MM:SS denotes
ClockSeconds(s) ==
    LET f == ClockFields(s)
    IN  3600 * DecimalValue(f[1]) + 60 * DecimalValue(f[2]) + DecimalValue(f[3])

\* the start and end strings of a --download-sections value *start-end
SectionStart(v) ==
    SubSeq(v, 2, (CHOOSE i \in 1..Len(v) : v[i] = "-") - 1)

SectionEnd(v) ==
    SubSeq(v, (CHOOSE i \in 1..Len(v) : v[i] = "-") + 1, Len(v))

\* C31: format_time gives the zero-padded string HH:MM:SS of the whole
\* seconds of |s|, with MM and SS below 60 (0 gives 00:00:00, 61 gives
\* 00:01:01, 3661 gives 01:01:01), and for a valid timing the end string of
\* build_command's time range denotes a time not earlier than its start string
C31_FormatTime ==
    /\ (call.fn = "format_time" /\ ret.some) =>
          LET f == ClockFields(ret.value)
              whole == Abs(call.seconds) \div 100
          IN  /\ f # <<>>
              /\ DecimalValue(f[2]) < 60 /\ DecimalValue(f[3]) < 60
              /\ ClockSeconds(ret.value) = whole
              /\ (call.seconds = 0 =>
                    ret.value = <<"0", "0", ":", "0", "0", ":", "0", "0">>)
              /\ (call.seconds = 6100 =>
                    ret.value = <<"0", "0", ":", "0", "1", ":", "0", "1">>)
              /\ (call.seconds = 366100 =>
                    ret.value = <<"0", "1", ":", "0", "1", ":", "0", "1">>)
    /\ (call.fn = "build_command" /\ ret.some) =>
          /\ validate(call.timing) = Ok
          /\ ret.value[1] = "*"
          /\ SectionStart(ret.value) = format_time(call.timing.start)
          /\ ClockFields(SectionEnd(ret.value)) # <<>>
          /\ ClockSeconds(SectionStart(ret.value)) <= ClockSeconds(SectionEnd(ret.value))

\* format_time has returned 01:01:01 for 3661 seconds
C31_Witness ==
    /\ call.fn = "format_time" /\ call.seconds = 366100
    /\ ret = Returns(<<"0", "1", ":", "0", "1", ":", "0", "1">>)

\* build_command has built the range of a clip of a tenth of a second that
\* ends in the next minute
C31_WitnessRange ==
    /\ call.fn = "build_command" /\ call.timing.start = 5990
    /\ ret = Returns(<<"*", "0", "0", ":", "0", "0", ":", "5", "9", "-",
                       "0", "0", ":", "0", "1", ":", "0", "0">>)

\* the sum of a list of durations, taken from its end
RECURSIVE SumFromEnd(_)
SumFromEnd(s) == IF s = <<>> THEN 0 ELSE Last(s) + SumFromEnd(SubSeq(s, 1, Len(s) - 1))

\* C32: total_duration is the sum of the clip durations minus one transition
\* for each clip but the first, and 0 for an empty list (10 s and 15 s
\* without transition give 25 s; 10 s, 15 s and 20 s with 0.5 s give 44 s)
C32_TotalDuration ==
    (call.fn = "total_duration" /\ ret.some) =>
        LET clips_ == call.config.clips
            td == call.config.transition_duration
        IN  /\ clips_ = <<>> => ret.value = 0
            /\ clips_ # <<>> =>
                  ret.value + (Len(clips_) - 1) * td = SumFromEnd(clips_)
            /\ (clips_ = <<1000, 1500>> /\ td = 0) => ret.value = 2500
            /\ (clips_ = <<1000, 1500, 2000>> /\ td = 50) => ret.value = 4400

\* the second unit test: three clips and a transition of half a second
C32_Witness ==
    /\ call.fn = "total_duration"
    /\ call.config = [clips |-> <<1000, 1500, 2000>>, transition_duration |-> 50]
    /\ ret = Returns(4400)

\* total_duration has returned 0 for an empty list with a transition set
C32_WitnessEmpty ==
    /\ call.fn = "total_duration"
    /\ call.config = [clips |-> <<>>, transition_duration |-> 50]
    /\ ret = Returns(0)

\* C33: whatever the interleaving of init_config, get_config and
\* set_output_dir calls, CONFIG is initialised at most once, detect_best runs
\* at most once, and every re-encode command uses the encoder it returned
C33_EncoderComputedOnce ==
    /\ Len(detected) <= 1
    /\ CONFIG.some <=> Len(detected) = 1
    /\ CONFIG.some => CONFIG.encoder = detected[1]
    /\ \A e \in used : Len(detected) = 1 /\ e = detected[1]
    /\ lock.writer # 0 => lock.readers = {}

\* both threads have built a re-encode command, one of them through the
\* init_config call of get_config, and the output directory has been changed
C33_Witness ==
    /\ backend = "config"
    /\ ncalls = MaxConfigCalls
    /\ \A t \in Threads : threads[t] = Outside
    /\ CONFIG.some /\ CONFIG.output_dir = "custom"
    /\ used = {"h264_nvenc"}

\* two threads are inside init_config at once, both called from get_config
C33_WitnessRace ==
    /\ \A t \in Threads : threads[t].nested /\ threads[t].pc \in {"write", "locked"}
    /\ \E t \in Threads : lock.writer = t

\* the command being run ends in this step with outcome o
Ends(o) ==
    /\ hist # <<>> /\ Len(hist') = Len(hist)
    /\ Last(hist).outcome = "running"
    /\ Last(hist').outcome = o

\* C34: in run_command_with_progress of both backends the outcome of a
\* command is decided by child.wait(): ok only in a step that waits a process
\* exited with status zero, a tool failure when the status it returns is not
\* zero, and a process waited with status zero gives ok; after end-of-stream
\* alone the command is still running
C34_ExitStatusDecides ==
    /\ [](pc = "wait" =>
             /\ Last(hist).outcome = "running"
             /\ result = Pending
             /\ proc.state \in {"running", "exited"})
    /\ [][(backend \in {"ffmpeg", "ytdlp"}) =>
             (/\ Ends("ok") =>
                    proc.state = "exited" /\ proc.status = 0 /\ proc'.state = "reaped"
              /\ Ends("exit") =>
                    /\ proc.state = "exited" /\ proc.status # 0
                    /\ last_error'.kind = ToolKind
              /\ (proc.state = "exited" /\ proc'.state = "reaped" /\ proc.status = 0) =>
                    (Ends("ok") \/ Ends("waiterr")))]_vars

\* the pipe has reached end-of-stream first and the process has then exited
\* with a failure status that has not been waited for yet
C34_Witness ==
    /\ pc = "wait"
    /\ proc.state = "exited" /\ proc.status = 1
    /\ Last(hist).outcome = "running"

\* C35: at most one child of an export call is alive at any time: a command
\* is spawned, and ffprobe is run, only when every earlier child of the call
\* has exited or been killed and has been waited for
C35_OneChildAtATime ==
    backend \in {"ffmpeg", "ytdlp"} =>
        /\ proc.left = 0
        /\ pc \in {"spawn", "verify", "done"} => proc.state \in {"none", "reaped"}
        /\ Cardinality({ i \in 1..Len(hist) : hist[i].outcome = "running" })
              = (IF proc.state \in {"running", "exited"} THEN 1 ELSE 0)

\* the third command of a call runs after the first was killed on the
\* timeout and the second exited with a failure status
C35_Witness ==
    /\ Len(hist) = 3
    /\ hist[1].outcome = "timeout" /\ hist[2].outcome = "exit"
    /\ proc.state = "running" /\ proc.left = 0

\* C36: the yt-dlp backend drains every pipe it opened to its child, so the
\* child is never blocked in a write to one of them and no command of the
\* backend ends by the timeout killing a child that was blocked that way
C36_PipesDrained ==
    [][(backend = "ytdlp" /\ Ends("timeout")) => (~ proc.stuck)]_vars

\* C37: once init_proxy_port has stored a port and the relay thread has run
\* start_proxy_server up to its bind, the relay listens on the stored port,
\* whatever other processes have bound in between: the stored port is never
\* one on which nothing of this process listens
C37_StoredPortIsServed ==
    (ACTIVE_PORT # 0 /\ server # "starting") =>
        (server = "serving" /\ listenPort = ACTIVE_PORT)

\* a text is a numeral: an optional sign, digits, a point, digits, with
\* white space around it
IsNumeral(s) ==
    LET t == SelectSeq(s, LAMBDA c : c \notin {" ", "\n", "-"})
        dots == { i \in 1..Len(t) : t[i] = "." }
    IN  /\ Cardinality({ i \in 1..Len(s) : s[i] = "-" }) <= 1
        /\ Cardinality({ i \in 1..Len(s) : s[i] = "\n" }) <= 1
        /\ ("-" \in { s[i] : i \in 1..Len(s) } => s[1] = "-")
        /\ Cardinality(dots) = 1
        /\ \E p \in dots : /\ IsDigitRun(SubSeq(t, 1, p - 1))
                           /\ IsDigitRun(SubSeq(t, p + 1, Len(t)))

\* the duration a numeral denotes, in centiseconds
Denoted(s) ==
    LET t == SelectSeq(s, LAMBDA c : c \notin {" ", "\n", "-"})
        p == CHOOSE i \in 1..Len(t) : t[i] = "."
        v == 100 * DecimalValue(SubSeq(t, 1, p - 1))
                 + DecimalValue(SubSeq(t, p + 1, p + 2))
    IN  IF s[1] = "-" THEN -v ELSE v

\* C38: verify_output accepts exactly when ffprobe exited with success,
\* printed a parsable duration and |actual - expected| <= max(15% of
\* expected, 1.5 s); it fails with DurationMismatch when the difference is
\* larger and with CorruptedOutput when ffprobe failed or printed no parsable
\* duration; up to 10 s expected the tolerance is 1.5 s, above it 15%
C38_VerifyOutput ==
    (call.fn = "verify_output" /\ ret.some) =>
        LET expected == call.expected
            ran == call.output.status = 0
            parsable == IsNumeral(call.output.stdout)
            diff == Abs(Denoted(call.output.stdout) - expected)
            within == IF expected <= 1000 THEN diff <= 150
                      ELSE 100 * diff <= 15 * expected
        IN  /\ ret.value = Ok <=> (ran /\ parsable /\ within)
            /\ ret.value.kind = "DurationMismatch" <=> (ran /\ parsable /\ ~ within)
            /\ ret.value.kind = "CorruptedOutput" <=> (~ ran \/ ~ parsable)

\* an output 1.5 s longer than the 5 s expected has been accepted
C38_Witness ==
    /\ call.fn = "verify_output" /\ call.expected = 500
    /\ call.output = ProbeOutput(0, ProbeText(650))
    /\ ret = Returns(Ok)

\* an output one centisecond beyond 15% of the 30 s expected has been refused
C38_WitnessMismatch ==
    /\ call.fn = "verify_output" /\ call.expected = 3000
    /\ call.output = ProbeOutput(0, ProbeText(3451))
    /\ ret.some /\ ret.value.kind = "DurationMismatch"

----------------------------------------------------------------------------
(* export_clips: the result and the events *)

\* the positions of the ClipCompleted events of the clip `index` with `status`
Completed(index, status) ==
    { k \in 1..Len(events) : events[k] = Ev("ClipCompleted", index, status) }

\* the number of ClipCompleted events with `status`
CompletedWith(status) ==
    Cardinality({ k \in 1..Len(events) :
                     events[k].type = "ClipCompleted" /\ events[k].status = status })

ReturnedOk == cret.some /\ cret.value.ok

\* C39: when export_clips returns Ok, exported + skipped + failed is the
\* number of requested clips, errors has `failed` entries, and each clip has
\* exactly one ClipCompleted event, the events of each status being as many
\* as the counter of that status.
C39_ClassifiedOnce ==
    ReturnedOk =>
        LET r == cret.value
        IN  /\ r.exported + r.skipped + r.failed = Len(clipRequests)
            /\ Len(r.errors) = r.failed
            /\ \A c \in 1..Len(clipRequests) :
                  Cardinality(UNION { Completed(clipRequests[c], st) :
                                        st \in {"Success", "Skipped", "Failed"} }) = 1
            /\ CompletedWith("Success") = r.exported
            /\ CompletedWith("Skipped") = r.skipped
            /\ CompletedWith("Failed") = r.failed

\* a call returned Ok with one clip exported and one failed
C39_Witness ==
    ReturnedOk /\ cret.value.exported = 1 /\ cret.value.failed = 1

\* a call returned Ok with a clip skipped
C39_WitnessSkipped ==
    ReturnedOk /\ cret.value.skipped >= 1 /\ Len(clipRequests) = MaxRequests

\* the events of one clip that was not skipped start at position k: they are
\* ClipStarted, ClipProgress of the same index any number of times, and one
\* ClipCompleted of the same index
ClipRunAt(k) ==
    \E j \in (k + 1)..Len(events) :
        /\ events[j].type = "ClipCompleted"
        /\ events[j].index = events[k].index
        /\ events[j].status # "Skipped"
        /\ \A m \in (k + 1)..(j - 1) :
              events[m] = Ev("ClipProgress", events[k].index, "none")

\* the event at position k belongs to the run of a ClipStarted before it
InClipRun(k) ==
    \E s \in 1..(k - 1) :
        /\ events[s] = Ev("ClipStarted", events[k].index, "none")
        /\ \A m \in (s + 1)..(k - 1) :
              events[m] = Ev("ClipProgress", events[k].index, "none")

\* C40: the events of a call that has returned are Started first, then for
\* each clip either one ClipCompleted Skipped or ClipStarted, ClipProgress of
\* that clip and one ClipCompleted with nothing of another clip in between,
\* and Finished last whenever Started was emitted.
C40_EventsWellFormed ==
    (cpc = "returned" /\ events # <<>>) =>
        /\ events[1].type = "Started"
        /\ events[Len(events)].type = "Finished"
        /\ \A k \in 2..Len(events) :
              /\ events[k].type # "Started"
              /\ events[k].type = "Finished" => k = Len(events)
              /\ events[k].type = "ClipStarted" => ClipRunAt(k)
              /\ events[k].type = "ClipProgress" => InClipRun(k)
              /\ (events[k].type = "ClipCompleted" /\ events[k].status # "Skipped")
                    => InClipRun(k)

====
